---- MODULE Spec2Model ----
(* A model of the aves kernel core: the physical page allocator             *)
(* (memory/page.rs), the spinlock (sync.rs), the process table with its     *)
(* cooperative scheduler (process/mod.rs) and the block operation of the    *)
(* virtio driver (driver/virtio.rs).                                        *)
EXTENDS Integers, Sequences, FiniteSets, TLC

(* ------------------------------------------------------------------------ *)
(* Bounds of the model                                                      *)
(* ------------------------------------------------------------------------ *)

\* Number of pages of the heap region (LD_HEAP_SIZE / PAGE_SIZE) in the
\* allocator specification.
NumPages == 6

\* Number of pages of the heap region in the scheduler specification.
SchedPages == 6

\* Largest number of processes spawned in the scheduler specification.
MaxProcs == 3

\* Processes spawned into a table that grows past its first page, and the
\* pages of the heap they need.
ChainProcs == 13
ChainPages == 16

\* Number of pages of a heap region too small for the metadata page, the
\* process page and the stacks of MaxProcs processes.
TightPages == 4

\* Number of harts contending for one Mutex.
NumHarts == 2

\* The payload of the Mutex is a counter modulo this value.
DataMod == 3

\* Longest recorded prefix of the sequence of dispatches.
MaxTrace == 4

\* Number of pages of the heap region in the block-device specification.
BlockPages == 34

\* Number of block devices, each behind its own Mutex.
NumDevices == 2

\* Number of virtio slots probed at boot, and pages of the heap region then.
NumSlots == 2
BootPages == 10

\* Number of pages of the heap region in the bring-up specification: the
\* queue of the first block device fits, the next one does not.
BringupPages == 4

\* Number of pages of the largest heap region in the metadata specification
\* (one more than a single metadata page describes), and the largest number
\* of runs allocated at a time there.
MetaPages == 4097
MaxRuns == 2

\* Largest fault code handed to kpanic, besides two codes of three digits.
MaxFaultCode == 16

(* ------------------------------------------------------------------------ *)
(* Program constants                                                        *)
(* ------------------------------------------------------------------------ *)

PAGE_SIZE == 4096

\* Linker-provided address of the heap region (any page-aligned address).
LD_HEAP_START == 65536

\* usize arithmetic wraps modulo this value.  The target has 64-bit words;
\* the model keeps a narrower word, wide enough that every wrapped (negative)
\* offset still is far beyond the heap region, as it is with 64 bits.
UsizeModulus == 1073741824

\* size_of::<ProcessEntry>(): 289 bytes of fields, aligned to 8.
SizeOfProcessEntry == 296

PROCESS_COUNT_PER_PAGE == PAGE_SIZE \div SizeOfProcessEntry - 1

\* Number of descriptors of the virtio queue: 1 << 7.
VIRTIO_QUEUE_SIZE == 128

VIRTIO_BLOCK_SECTOR_SIZE == 512

\* size_of::<BlockRequestHeader>(): typ u32, reserved u32, sector u64.
SizeOfBlockRequestHeader == 16

\* size_of::<BlockRequest>(): header 16, data pointer 8, status 1, aligned
\* to 8 (repr(C)).
SizeOfBlockRequest == 32

\* Offset of the field status in BlockRequest.
OffsetOfStatus == 24

(* ------------------------------------------------------------------------ *)
(* Page allocator: memory/page.rs                                           *)
(* ------------------------------------------------------------------------ *)

\* PageFlags: a set of flag bits.
EMPTY == {}
TAKEN == {"TAKEN"}
FIRST == {"FIRST"}
METADATA == {"METADATA"}

is_taken(flags) == TAKEN \subseteq flags

is_first(flags) == FIRST \subseteq flags

\* is_taken_and_first that looks at the taken bit only.
is_taken_only(flags) == TAKEN \subseteq flags

is_taken_and_first(flags) == (TAKEN \cup FIRST) \subseteq flags

is_taken_and_not_first(flags) == flags \cap (TAKEN \cup FIRST) = TAKEN

\* get_pages().len(): the metadata array is a function 0..len-1 -> PageFlags.
PagesLen(pgs) == Cardinality(DOMAIN pgs)

\* PAGE_START rounded down instead of up.
PageStartFloor(len) == (len * 1) \div PAGE_SIZE

\* PAGE_START as computed by init(): one metadata byte per page.
PageStartOf(len) == (len * 1 + PAGE_SIZE - 1) \div PAGE_SIZE

\* The metadata array after init().
PageInit(len) ==
    [i \in 0..(len - 1) |->
        IF i < PageStartOf(len) THEN TAKEN \cup METADATA ELSE EMPTY]

\* Address of the page of index i.
PageAddr(i) == LD_HEAP_START + i * PAGE_SIZE

\* AllocScan that keeps counting across a taken page.
RECURSIVE AllocScanNoReset(_, _, _, _, _)
AllocScanNoReset(pgs, pages_count, i, first_page, pages_needed) ==
    IF i >= PagesLen(pgs)
    THEN [found |-> FALSE, first_page |-> first_page]
    ELSE IF ~is_taken(pgs[i])
         THEN LET fp == IF pages_needed = 0 THEN i ELSE first_page
                  pn == IF pages_needed = 0 THEN pages_count - 1
                                            ELSE pages_needed - 1
              IN  IF pn = 0
                  THEN [found |-> TRUE, first_page |-> fp]
                  ELSE AllocScanNoReset(pgs, pages_count, i + 1, fp, pn)
         ELSE AllocScanNoReset(pgs, pages_count, i + 1, first_page, pages_needed)

\* The scan loop of alloc(), from index i on: the loop variables are
\* first_page and pages_needed; the result is [found, first_page].
RECURSIVE AllocScan(_, _, _, _, _)
AllocScan(pgs, pages_count, i, first_page, pages_needed) ==
    IF i >= PagesLen(pgs)
    THEN [found |-> FALSE, first_page |-> first_page]
    ELSE IF ~is_taken(pgs[i])
         THEN LET fp == IF pages_needed = 0 THEN i ELSE first_page
                  pn == IF pages_needed = 0 THEN pages_count - 1
                                            ELSE pages_needed - 1
              IN  IF pn = 0
                  THEN [found |-> TRUE, first_page |-> fp]
                  ELSE AllocScan(pgs, pages_count, i + 1, fp, pn)
         ELSE AllocScan(pgs, pages_count, i + 1, first_page, 0)

\* AllocMark that flags every page of the run as a first page.
AllocMarkAllFirst(pgs, first_page, pages_count) ==
    [i \in DOMAIN pgs |->
        IF i >= first_page /\ i < first_page + pages_count THEN TAKEN \cup FIRST
        ELSE pgs[i]]

\* The marking of a found run by alloc().
AllocMark(pgs, first_page, pages_count) ==
    [i \in DOMAIN pgs |->
        IF i = first_page THEN TAKEN \cup FIRST
        ELSE IF i >= first_page + 1 /\ i < first_page + pages_count THEN TAKEN
        ELSE pgs[i]]

\* alloc that keeps the first page it looked at when the scan fails.
AllocFromDirty(pgs, start, pages_count) ==
    LET scan == AllocScan(pgs, pages_count, start, 0, 0)
    IN  IF scan.found
        THEN [res |-> "Ok", ptr |-> PageAddr(scan.first_page),
              pages |-> AllocMark(pgs, scan.first_page, pages_count)]
        ELSE [res |-> "AllocError", ptr |-> 0,
              pages |-> AllocMark(pgs, scan.first_page, 1)]

\* alloc(pages_count) on the metadata pgs with PAGE_START = start.
\* The result is the Result (res, ptr) and the metadata afterwards.
AllocFrom(pgs, start, pages_count) ==
    LET scan == AllocScan(pgs, pages_count, start, 0, 0)
    IN  IF scan.found
        THEN [res |-> "Ok", ptr |-> PageAddr(scan.first_page),
              pages |-> AllocMark(pgs, scan.first_page, pages_count)]
        ELSE [res |-> "AllocError", ptr |-> 0, pages |-> pgs]

alloc(pgs, pages_count) == AllocFrom(pgs, PageStartOf(PagesLen(pgs)), pages_count)

\* A page index rounded up instead of down.
PageIndexCeil(ptr) ==
    (((ptr - LD_HEAP_START) % UsizeModulus) + PAGE_SIZE - 1) \div PAGE_SIZE

\* The page index computed by dealloc(): offset_from as usize / PAGE_SIZE.
PageIndexOf(ptr) == ((ptr - LD_HEAP_START) % UsizeModulus) \div PAGE_SIZE

\* TakeWhileEnd that goes on through the first pages of the following runs.
RECURSIVE TakeWhileEndTaken(_, _)
TakeWhileEndTaken(pgs, i) ==
    IF i < PagesLen(pgs) /\ is_taken(pgs[i]) /\ pgs[i] \cap METADATA = {}
    THEN TakeWhileEndTaken(pgs, i + 1)
    ELSE i

\* The end (exclusive) of the pages cleared by dealloc() after the first one:
\* take_while(is_taken_and_not_first) from index i on.
RECURSIVE TakeWhileEnd(_, _)
TakeWhileEnd(pgs, i) ==
    IF i < PagesLen(pgs) /\ is_taken_and_not_first(pgs[i])
    THEN TakeWhileEnd(pgs, i + 1)
    ELSE i

\* dealloc that clears the first page of the run only.
deallocFirstOnly(pgs, ptr) ==
    LET page_index == PageIndexOf(ptr)
    IN  IF page_index <= PagesLen(pgs)
        THEN IF page_index = PagesLen(pgs)
             THEN [res |-> "Panic", pages |-> pgs]
             ELSE IF ~is_taken_and_first(pgs[page_index])
             THEN [res |-> "InvalidPointer", pages |-> pgs]
             ELSE [res |-> "Ok",
                   pages |-> [i \in DOMAIN pgs |->
                                IF i = page_index THEN EMPTY ELSE pgs[i]]]
        ELSE [res |-> "OutOfRangePointer", pages |-> pgs]

\* dealloc that clears one page more than the run has.
deallocOneMore(pgs, ptr) ==
    LET page_index == PageIndexOf(ptr)
    IN  IF page_index <= PagesLen(pgs)
        THEN IF page_index = PagesLen(pgs)
             THEN [res |-> "Panic", pages |-> pgs]
             ELSE IF ~is_taken_and_first(pgs[page_index])
             THEN [res |-> "InvalidPointer", pages |-> pgs]
             ELSE LET end == TakeWhileEnd(pgs, page_index + 1)
                  IN  [res |-> "Ok",
                       pages |-> [i \in DOMAIN pgs |->
                                    IF i >= page_index /\ i <= end
                                    THEN EMPTY ELSE pgs[i]]]
        ELSE [res |-> "OutOfRangePointer", pages |-> pgs]

\* dealloc(page): the Result and the metadata afterwards.  The result Panic
\* stands for the index-out-of-bounds panic of pages[0]: get_mut(page_index..)
\* is Some(empty slice) when page_index equals the number of pages.
dealloc(pgs, ptr) ==
    LET page_index == PageIndexOf(ptr)
    IN  IF page_index <= PagesLen(pgs)
        THEN IF page_index = PagesLen(pgs)
             THEN [res |-> "Panic", pages |-> pgs]
             ELSE IF ~is_taken_and_first(pgs[page_index])
             THEN [res |-> "InvalidPointer", pages |-> pgs]
             ELSE LET end == TakeWhileEnd(pgs, page_index + 1)
                  IN  [res |-> "Ok",
                       pages |-> [i \in DOMAIN pgs |->
                                    IF i >= page_index /\ i < end
                                    THEN EMPTY ELSE pgs[i]]]
        ELSE [res |-> "OutOfRangePointer", pages |-> pgs]

(* ------------------------------------------------------------------------ *)
(* State                                                                    *)
(* ------------------------------------------------------------------------ *)

VARIABLES
    pages,                \* the page metadata array (get_pages())
    allocated,            \* the runs returned by alloc and not yet deallocated, by address
    lastOp,               \* the last allocator call: arguments, result, metadata before
    prevOp,               \* the allocator call before the last one
    mutex_state,          \* Mutex::state
    mutex_data,           \* Mutex::data, the payload
    hart_pc,              \* position of every hart in try_lock / spin_lock / guard use
    hart_swap,            \* the value amoswap returned to every hart
    unlocks,              \* per hart: unlock() calls made by its latest guard
    blk,                  \* per hart: its call of do_block_operation
    queue,                \* the QueueHandler and the Queue of the block device
    blk_mem,              \* the BlockRequest structures in memory, by address
    devices,              \* per block device: its Mutex state and its queue
    dev_op,               \* per hart: its call of do_block_operation on a device
    boot,                 \* kmain: its position, the CSRs and PLIC registers
                          \* it wrote, the drivers and the virtio slots
    console,              \* the lines printed on the UART
    PROCESS_COUNT,        \* number of allocated processes (dead or not)
    PROCESS_PAGE_COUNT,   \* number of process pages
    FIRST_PROCESS_PAGE,   \* address of the first process page
    LAST_PROCESS_PAGE,    \* address of the last process page
    RUNNING_PROCESS,      \* pointer to the running process, or NoProcess
    proc_mem,             \* the process pages by address: slots and next-page link
    hart,                 \* hart #0: mode "boot", "run" or "halted", and the
                          \* pc, sp and saved registers it was last given
    inWait,               \* pids whose call of wait() has not returned yet
    lastSched,            \* the last process-manager call and its outcome
    trace                 \* the first dispatches, in order

allocVars == <<pages, allocated, lastOp, prevOp>>

lockVars == <<mutex_state, mutex_data, hart_pc, hart_swap, unlocks>>

blockVars == <<blk, queue, blk_mem>>

devVars == <<devices, dev_op>>

bootVars == <<boot, console>>

procVars == <<PROCESS_COUNT, PROCESS_PAGE_COUNT, FIRST_PROCESS_PAGE,
              LAST_PROCESS_PAGE, RUNNING_PROCESS, proc_mem, inWait,
              lastSched, trace>>

schedVars == <<procVars, hart>>

vars == <<allocVars, lockVars, schedVars, blockVars, devVars, bootVars>>

\* No pid: the process manager call was made while no process was running,
\* or it dispatched no process.
NoPid == -1

\* Option::None of a process pointer: the null pointer.
NoProcess == [page |-> 0, idx |-> 0]

\* NonNull::dangling() of a ProcessEntry: its alignment.
Dangling == 8

NoOp == [op |-> "none", arg |-> 0, res |-> "none", ptr |-> 0, before |-> <<>>]

NoSched == [op |-> "none", by |-> NoPid, to |-> NoPid, res |-> "none",
            before |-> <<>>]

\* Hart #0 while it runs kmain on the kernel stack.
HartBoot == [mode |-> "boot", pc |-> "kmain", sp |-> 0, sx |-> 0]

\* The allocator right after init() on a heap of len pages.
AllocStart(len) ==
    /\ pages = PageInit(len)
    /\ allocated = <<>>
    /\ lastOp = NoOp
    /\ prevOp = NoOp

\* A Mutex right after Mutex::new(), no hart using it.
LockStart(harts) ==
    /\ mutex_state = "Released"
    /\ mutex_data = 0
    /\ hart_pc = [h \in harts |-> "idle"]
    /\ hart_swap = [h \in harts |-> "Released"]
    /\ unlocks = [h \in harts |-> 0]

\* A hart that is not inside do_block_operation.
NoBlock == [pc |-> "none", res |-> "none", req |-> 0]

\* A descriptor of the zeroed Queue.
ZeroDescriptor == [addr |-> 0, len |-> 0, flags |-> {}, next |-> 0]

\* QueueHandler::new(): index 0 over a Queue from alloc_zeroed.  The field
\* notify counts the writes to the queue-notify register.
QueueNew ==
    [index |-> 0,
     descriptor |-> [i \in 0..(VIRTIO_QUEUE_SIZE - 1) |-> ZeroDescriptor],
     available |-> [index |-> 0,
                    ring |-> [i \in 0..(VIRTIO_QUEUE_SIZE - 1) |-> 0]],
     notify |-> 0]

\* The block device before any block operation.
BlockStart(harts) ==
    /\ blk = [h \in harts |-> NoBlock]
    /\ queue = QueueNew
    /\ blk_mem = <<>>

\* A block device as load_block_device registers it: Mutex::new over the
\* device data with a fresh queue.
DeviceNew == [state |-> "Released", queue |-> QueueNew]

\* No call of do_block_operation.
NoDevOp == [pc |-> "idle", dev |-> 0, first_page |-> 0, req |-> 0, res |-> "none"]

\* The block devices devs, none of them in use by the harts.
DevStart(harts, devs) ==
    /\ devices = [d \in devs |-> DeviceNew]
    /\ dev_op = [h \in harts |-> NoDevOp]

\* The machine when kmain is at pc, with the virtio slots: no interrupt
\* enabled in mie or in the PLIC, mscratch as reset left it, no driver
\* registered, no virtio register written; heap is the number of pages of
\* the heap region (LD_HEAP_SIZE / PAGE_SIZE).
BootAt(pc, slots, misa) ==
    [pc |-> pc, mie |-> {}, mscratch |-> "reset",
     uart |-> [lcr |-> 0, fcr |-> 0, ier |-> 0, dll |-> 0, dlm |-> 0],
     plic |-> [threshold |-> 0, enable |-> {}, priority |-> <<>>],
     writes |-> <<>>, drivers |-> <<>>, loaded |-> <<>>, connected |-> {},
     mmio |-> <<>>, heap |-> BootPages,
     slots |-> slots, misa |-> misa]

\* kmain is not followed.
BootStart ==
    /\ boot = BootAt("none", <<>>, FALSE)
    /\ console = <<>>

\* The process manager before init(): the statics of process/mod.rs.
SchedStart ==
    /\ PROCESS_COUNT = 0
    /\ PROCESS_PAGE_COUNT = 0
    /\ FIRST_PROCESS_PAGE = Dangling
    /\ LAST_PROCESS_PAGE = Dangling
    /\ RUNNING_PROCESS = NoProcess
    /\ proc_mem = <<>>
    /\ hart = HartBoot
    /\ inWait = {}
    /\ lastSched = NoSched
    /\ trace = <<>>

(* ------------------------------------------------------------------------ *)
(* The allocator under arbitrary calls                                      *)
(* ------------------------------------------------------------------------ *)

\* The run recorded for a successful alloc(n) that returned ptr.
RunOf(ptr, n) == [first |-> PageIndexOf(ptr), count |-> n]

RunPages(r) == r.first..(r.first + r.count - 1)

\* The recorded runs and the run r; the record is kept in address order and
\* keeps a run that is returned twice as two entries.
WithRun(runs, r) ==
    LET Below(a) == a.first <= r.first
        Above(a) == a.first > r.first
    IN  SelectSeq(runs, Below) \o <<r>> \o SelectSeq(runs, Above)

\* The recorded runs without the one that starts at page index first.
WithoutRun(runs, first) ==
    LET Keep(r) == r.first # first IN SelectSeq(runs, Keep)

\* Page counts asked of alloc: every count that can fit and one that cannot.
\* A panic (failed unwrap(), index out of bounds): the panic handler aborts
\* the hart.
Panicked == [hart EXCEPT !.mode = "halted"]

\* asm_abort(): the hart loops forever.
Aborted == [hart EXCEPT !.mode = "halted"]

AllocCounts == 1..(PagesLen(pages) + 1)

\* Pointers handed to dealloc: the first and the last byte of every page, of
\* the page before the region and of the page after it.
DeallocPtrs ==
    {PageAddr(i) + d : i \in (-1)..PagesLen(pages), d \in {0, PAGE_SIZE - 1}}

\* The allocator part of the state, as one value.
AllocState ==
    [pages |-> pages, allocated |-> allocated, lastOp |-> lastOp, prevOp |-> prevOp]

\* A call of alloc(n) in the allocator state st: the state afterwards, with
\* the Result of the call in lastOp.
DoAlloc(st, n) ==
    LET r == alloc(st.pages, n)
    IN  [pages |-> r.pages,
         allocated |-> IF r.res = "Ok" THEN WithRun(st.allocated, RunOf(r.ptr, n))
                                       ELSE st.allocated,
         lastOp |-> [op |-> "alloc", arg |-> n, res |-> r.res, ptr |-> r.ptr,
                     before |-> st.pages],
         prevOp |-> st.lastOp]

\* A call of dealloc(ptr) that reports Ok and frees nothing.
DoDeallocKeep(st, ptr) ==
    [pages |-> st.pages,
     allocated |-> st.allocated,
     lastOp |-> [op |-> "dealloc", arg |-> ptr, res |-> "Ok", ptr |-> ptr,
                 before |-> st.pages],
     prevOp |-> st.lastOp]

\* A call of dealloc(ptr) in the allocator state st.
DoDealloc(st, ptr) ==
    LET r == dealloc(st.pages, ptr)
    IN  [pages |-> r.pages,
         allocated |-> IF r.res = "Ok"
                       THEN WithoutRun(st.allocated, PageIndexOf(ptr))
                       ELSE st.allocated,
         lastOp |-> [op |-> "dealloc", arg |-> ptr, res |-> r.res, ptr |-> ptr,
                     before |-> st.pages],
         prevOp |-> st.lastOp]

\* The allocator state becomes st.
AllocBecomes(st) ==
    /\ pages' = st.pages
    /\ allocated' = st.allocated
    /\ lastOp' = st.lastOp
    /\ prevOp' = st.prevOp

\* The hart after an allocator call with Result res: a panic halts it.
AfterCall(res) == IF res = "Panic" THEN Panicked ELSE hart

AllocCall(n) ==
    /\ hart.mode # "halted"
    /\ AllocBecomes(DoAlloc(AllocState, n))
    /\ hart' = AfterCall(lastOp'.res)
    /\ UNCHANGED <<lockVars, procVars, blockVars, devVars, bootVars>>

DeallocCall(ptr) ==
    /\ hart.mode # "halted"
    /\ AllocBecomes(DoDealloc(AllocState, ptr))
    /\ hart' = AfterCall(lastOp'.res)
    /\ UNCHANGED <<lockVars, procVars, blockVars, devVars, bootVars>>

AllocInit ==
    /\ AllocStart(NumPages) /\ LockStart({}) /\ SchedStart /\ BlockStart({})
    /\ DevStart({}, {}) /\ BootStart

AllocNext ==
    \/ \E n \in AllocCounts : AllocCall(n)
    \/ \E ptr \in DeallocPtrs : DeallocCall(ptr)

SpecAlloc == AllocInit /\ [][AllocNext]_vars

(* ------------------------------------------------------------------------ *)
(* Spinlock: sync.rs                                                        *)
(* ------------------------------------------------------------------------ *)

STATE_RELEASED == "Released"
STATE_ACQUIRED == "Acquired"

Harts == 1..NumHarts

\* An atomic OR in place of the swap: a set word is never cleared.
amoswap_or(mem, src) ==
    [rd |-> mem, mem |-> IF mem = "Acquired" THEN mem ELSE src]

\* A plain load in place of the swap: the memory word is left as it was.
amoswap_load(mem, src) == [rd |-> mem, mem |-> mem]

\* amoswap.w: one atomic instruction that returns the memory word in rd and
\* stores src into it.
amoswap(mem, src) == [rd |-> mem, mem |-> src]

\* A match that returns a guard whatever the swapped value was.
try_lock_always(state) == state = state

\* The match of try_lock() on the swapped value: is a guard returned?
try_lock_match(state) == state = STATE_RELEASED

\* The positions of a hart that owns a MutexGuard: using it, or calling
\* try_lock() or spin_lock() on the same Mutex again while it owns it.
GuardPcs == {"held", "access", "re_try_swap", "re_try_match",
             "re_spin_swap", "re_spin_match", "held2"}

\* The harts that own a MutexGuard.
Guards == {h \in DOMAIN hart_pc : hart_pc[h] \in GuardPcs}

\* The position after the amoswap of try_lock().
AfterSwap(pc) ==
    CASE pc = "try_swap" -> "try_match"
      [] pc = "spin_swap" -> "spin_match"
      [] pc = "re_try_swap" -> "re_try_match"
      [] pc = "re_spin_swap" -> "re_spin_match"

\* A hart calls try_lock().
TryLockCall(h) ==
    /\ hart_pc[h] = "idle"
    /\ hart_pc' = [hart_pc EXCEPT ![h] = "try_swap"]
    /\ UNCHANGED <<mutex_state, mutex_data, hart_swap, unlocks, allocVars,
                   schedVars, blockVars, devVars, bootVars>>

\* A hart calls spin_lock() and enters its loop.
SpinLockCall(h) ==
    /\ hart_pc[h] = "idle"
    /\ hart_pc' = [hart_pc EXCEPT ![h] = "spin_swap"]
    /\ UNCHANGED <<mutex_state, mutex_data, hart_swap, unlocks, allocVars,
                   schedVars, blockVars, devVars, bootVars>>

\* The owner of a guard calls try_lock() on the same Mutex.
ReTryLockCall(h) ==
    /\ hart_pc[h] = "held"
    /\ blk[h].pc = "none"
    /\ hart_pc' = [hart_pc EXCEPT ![h] = "re_try_swap"]
    /\ UNCHANGED <<mutex_state, mutex_data, hart_swap, unlocks, allocVars,
                   schedVars, blockVars, devVars, bootVars>>

\* The owner of a guard calls spin_lock() on the same Mutex.
ReSpinLockCall(h) ==
    /\ hart_pc[h] = "held"
    /\ blk[h].pc = "none"
    /\ hart_pc' = [hart_pc EXCEPT ![h] = "re_spin_swap"]
    /\ UNCHANGED <<mutex_state, mutex_data, hart_swap, unlocks, allocVars,
                   schedVars, blockVars, devVars, bootVars>>

\* The amoswap.w.aq of try_lock(), called directly or from spin_lock().
TryLockSwap(h) ==
    /\ hart_pc[h] \in {"try_swap", "spin_swap", "re_try_swap", "re_spin_swap"}
    /\ LET r == amoswap(mutex_state, STATE_ACQUIRED)
       IN  /\ hart_swap' = [hart_swap EXCEPT ![h] = r.rd]
           /\ mutex_state' = r.mem
    /\ hart_pc' = [hart_pc EXCEPT ![h] = AfterSwap(hart_pc[h])]
    /\ UNCHANGED <<mutex_data, unlocks, allocVars, schedVars, blockVars, devVars, bootVars>>

\* try_lock() returns to its caller: a guard, or none.  A guard returned to
\* a hart that owns one already is its second guard.
TryLockReturn(h) ==
    /\ hart_pc[h] \in {"try_match", "re_try_match"}
    /\ LET some == try_lock_match(hart_swap[h])
       IN  IF hart_pc[h] = "try_match"
           THEN /\ hart_pc' = [hart_pc EXCEPT
                                 ![h] = IF some THEN "held" ELSE "idle"]
                /\ unlocks' = [unlocks EXCEPT ![h] = IF some THEN 0 ELSE @]
           ELSE /\ hart_pc' = [hart_pc EXCEPT
                                 ![h] = IF some THEN "held2" ELSE "held"]
                /\ UNCHANGED unlocks
    /\ UNCHANGED <<mutex_state, mutex_data, hart_swap, allocVars, schedVars,
                   blockVars, devVars, bootVars>>

\* One turn of the loop of spin_lock(): return the guard, or try again.
SpinLockLoop(h) ==
    /\ hart_pc[h] \in {"spin_match", "re_spin_match"}
    /\ LET some == try_lock_match(hart_swap[h])
       IN  IF hart_pc[h] = "spin_match"
           THEN /\ hart_pc' = [hart_pc EXCEPT
                                 ![h] = IF some THEN "held" ELSE "spin_swap"]
                /\ unlocks' = [unlocks EXCEPT ![h] = IF some THEN 0 ELSE @]
           ELSE /\ hart_pc' = [hart_pc EXCEPT
                                 ![h] = IF some THEN "held2" ELSE "re_spin_swap"]
                /\ UNCHANGED unlocks
    /\ UNCHANGED <<mutex_state, mutex_data, hart_swap, allocVars, schedVars,
                   blockVars, devVars, bootVars>>

\* The holder of a guard takes a reference to the payload (deref_mut).
GuardDeref(h) ==
    /\ hart_pc[h] = "held"
    /\ blk[h].pc = "none"
    /\ hart_pc' = [hart_pc EXCEPT ![h] = "access"]
    /\ UNCHANGED <<mutex_state, mutex_data, hart_swap, unlocks, allocVars,
                   schedVars, blockVars, devVars, bootVars>>

\* The holder writes the payload through its reference.
GuardWrite(h) ==
    /\ hart_pc[h] = "access"
    /\ mutex_data' = (mutex_data + 1) % DataMod
    /\ hart_pc' = [hart_pc EXCEPT ![h] = "held"]
    /\ UNCHANGED <<mutex_state, hart_swap, unlocks, allocVars, schedVars,
                   blockVars, devVars, bootVars>>

\* The guard is dropped: unlock() is one amoswap.w.rl of Released.  Inside
\* do_block_operation the drop happens when the function returns.
GuardDrop(h) ==
    /\ hart_pc[h] = "held"
    /\ blk[h].pc \in {"none", "return"}
    /\ mutex_state' = amoswap(mutex_state, STATE_RELEASED).mem
    /\ unlocks' = [unlocks EXCEPT ![h] = @ + 1]
    /\ hart_pc' = [hart_pc EXCEPT ![h] = "idle"]
    /\ blk' = [blk EXCEPT ![h].pc = "none"]
    /\ UNCHANGED <<mutex_data, hart_swap, queue, blk_mem, allocVars,
                   schedVars,
                   devVars, bootVars>>

LockInit ==
    /\ AllocStart(0) /\ LockStart(Harts) /\ SchedStart /\ BlockStart(Harts)
    /\ DevStart({}, {}) /\ BootStart

LockNext ==
    \E h \in Harts :
        \/ TryLockCall(h)
        \/ SpinLockCall(h)
        \/ ReTryLockCall(h)
        \/ ReSpinLockCall(h)
        \/ TryLockSwap(h)
        \/ TryLockReturn(h)
        \/ SpinLockLoop(h)
        \/ GuardDeref(h)
        \/ GuardWrite(h)
        \/ GuardDrop(h)

SpecLock == LockInit /\ [][LockNext]_vars

(* ------------------------------------------------------------------------ *)
(* Block operations of the virtio driver: driver/virtio.rs                  *)
(* ------------------------------------------------------------------------ *)

\* The arguments of do_block_operation: buffer, length, offset, direction.
BlockInputs ==
    [buf : {PAGE_SIZE}, len : {VIRTIO_BLOCK_SECTOR_SIZE},
     off : {0, 2 * VIRTIO_BLOCK_SECTOR_SIZE}, write : BOOLEAN]

\* QueueDescriptor::new(addr, len, write).
QueueDescriptorNew(addr, len, write) ==
    [addr |-> addr, len |-> len,
     flags |-> IF write THEN {"WRITE"} ELSE {}, next |-> 0]

\* QueueHandler::append(descriptor): the queue afterwards and the
\* QueueHandlerNext it returns (index, head_index; prev is the descriptor of
\* that index).
QueueAppend(q, descriptor) ==
    LET index == (q.index + 1) % VIRTIO_QUEUE_SIZE
    IN  [queue |-> [q EXCEPT !.index = index,
                             !.descriptor[index] = descriptor],
         index |-> index,
         head_index |-> index]

\* QueueHandlerNext::next(descriptor) on the handle nx of the queue nx.queue.
QueueNext(nx, descriptor) ==
    LET next == QueueAppend(nx.queue, descriptor)
        prev == nx.index
    IN  [queue |-> [next.queue EXCEPT
                      !.descriptor[prev].flags = @ \cup {"NEXT"},
                      !.descriptor[prev].next = nx.index],
         index |-> next.index,
         head_index |-> nx.head_index]

\* QueueHandler::mark_available(head_index).
QueueMarkAvailable(q, head_index) ==
    LET index == q.available.index
    IN  [q EXCEPT !.available.ring[index] = head_index,
                  !.available.index = (index + 1) % VIRTIO_QUEUE_SIZE]

\* The BlockRequest filled in by do_block_operation.
BlockRequestOf(in) ==
    [sector |-> in.off \div VIRTIO_BLOCK_SECTOR_SIZE,
     typ |-> IF in.write THEN "Out" ELSE "In",
     reserved |-> 0, data |-> in.buf, status |-> 111]

\* The three descriptors of one request, chained, made available and notified.
QueueSubmit(q, req, in) ==
    LET d1 == QueueAppend(q, QueueDescriptorNew(req, SizeOfBlockRequestHeader,
                                                FALSE))
        d2 == QueueNext(d1, QueueDescriptorNew(in.buf, in.len, ~in.write))
        d3 == QueueNext(d2, QueueDescriptorNew(req + OffsetOfStatus, 1, TRUE))
        q4 == QueueMarkAvailable(d3.queue, d3.head_index)
    IN  [q4 EXCEPT !.notify = @ + 1]

\* The memory mem with the value val at address ptr.
Store(mem, ptr, val) ==
    [a \in DOMAIN mem \cup {ptr} |-> IF a = ptr THEN val ELSE mem[a]]

\* A hart calls do_block_operation: it starts with data.spin_lock().
BlockOpCall(h) ==
    /\ hart_pc[h] = "idle"
    /\ hart_pc' = [hart_pc EXCEPT ![h] = "spin_swap"]
    /\ blk' = [blk EXCEPT ![h] = [pc |-> "lock", res |-> "none", req |-> 0]]
    /\ UNCHANGED <<mutex_state, mutex_data, hart_swap, unlocks, queue,
                   blk_mem, allocVars, schedVars,
                   devVars, bootVars>>

\* The leak of the guard in place of the early return.
BlockAllocLeak(h) ==
    /\ hart_pc[h] = "held"
    /\ blk[h].pc = "lock"
    /\ LET st == DoAlloc(AllocState, SizeOfBlockRequest)
       IN  /\ AllocBecomes(st)
           /\ IF st.lastOp.res = "Ok"
              THEN /\ blk' = [blk EXCEPT ![h].pc = "submit",
                                         ![h].req = st.lastOp.ptr]
                   /\ UNCHANGED hart_pc
              ELSE /\ blk' = [blk EXCEPT ![h].pc = "none",
                                         ![h].res = "Internal"]
                   /\ hart_pc' = [hart_pc EXCEPT ![h] = "idle"]
    /\ UNCHANGED <<mutex_state, mutex_data, hart_swap, unlocks, queue,
                   blk_mem, schedVars,
                   devVars, bootVars>>

\* The allocation of the request under the guard: alloc(size_of request)
\* pages, and the early return of Internal when it fails.
BlockAlloc(h) ==
    /\ hart_pc[h] = "held"
    /\ blk[h].pc = "lock"
    /\ LET st == DoAlloc(AllocState, SizeOfBlockRequest)
       IN  /\ AllocBecomes(st)
           /\ IF st.lastOp.res = "Ok"
              THEN blk' = [blk EXCEPT ![h].pc = "submit",
                                      ![h].req = st.lastOp.ptr]
              ELSE blk' = [blk EXCEPT ![h].pc = "return",
                                      ![h].res = "Internal"]
    /\ UNCHANGED <<lockVars, queue, blk_mem, schedVars,
                   devVars, bootVars>>

\* The rest of do_block_operation: the request is filled in, its descriptors
\* are queued and the device is notified; Ok(()) is about to be returned.
\* The arguments of the call are only read here, so they are drawn here.
BlockSubmit(h) ==
    /\ hart_pc[h] = "held"
    /\ blk[h].pc = "submit"
    /\ \E in \in BlockInputs :
          /\ blk_mem' = Store(blk_mem, blk[h].req, BlockRequestOf(in))
          /\ queue' = QueueSubmit(queue, blk[h].req, in)
    /\ blk' = [blk EXCEPT ![h].pc = "return", ![h].res = "Ok"]
    /\ UNCHANGED <<lockVars, allocVars, schedVars,
                   devVars, bootVars>>

BlockInit ==
    /\ AllocStart(BlockPages) /\ LockStart(Harts) /\ SchedStart /\ BlockStart(Harts)
    /\ DevStart({}, {}) /\ BootStart

BlockNext ==
    \E h \in Harts :
        \/ BlockOpCall(h)
        \/ TryLockCall(h)
        \/ TryLockSwap(h)
        \/ TryLockReturn(h)
        \/ SpinLockLoop(h)
        \/ BlockAlloc(h)
        \/ BlockSubmit(h)
        \/ GuardDrop(h)

SpecBlock == BlockInit /\ [][BlockNext]_vars

(* ------------------------------------------------------------------------ *)
(* Properties of the spinlock                                               *)
(* ------------------------------------------------------------------------ *)

\* C2: in every interleaving of harts calling spin_lock() and try_lock() on
\* one Mutex at most one guard exists, the lock word is Acquired while it
\* exists, and so at most one hart accesses the payload.
MutualExclusion ==
    /\ Cardinality(Guards) <= 1
    /\ Guards # {} => mutex_state = STATE_ACQUIRED
    /\ Cardinality({h \in DOMAIN hart_pc : hart_pc[h] = "access"}) <= 1

\* One hart accesses the payload under its guard while another hart, inside
\* spin_lock(), has just swapped the lock word and found it Acquired.
MutualExclusionWitness ==
    \E h, g \in DOMAIN hart_pc :
        /\ hart_pc[h] = "access"
        /\ hart_pc[g] = "spin_match"
        /\ hart_swap[g] = STATE_ACQUIRED
        /\ mutex_data > 0

\* The harts other than h are where they were.
OthersKept(h) == \A g \in DOMAIN hart_pc : g # h => hart_pc'[g] = hart_pc[g]

\* C15: try_lock() is one atomic exchange that stores Acquired and returns a
\* guard exactly when the state it replaced was Released; a try_lock() that
\* finds Acquired returns none, leaves the state Acquired and disturbs neither
\* the holder nor the payload.
TryLockContract ==
    [][\A h \in DOMAIN hart_pc :
         /\ (hart_pc[h] = "try_swap" /\ hart_pc'[h] # "try_swap") =>
               /\ hart_pc'[h] = "try_match"
               /\ hart_swap'[h] = mutex_state
               /\ mutex_state' = STATE_ACQUIRED
               /\ mutex_data' = mutex_data
               /\ OthersKept(h)
         /\ (hart_pc[h] = "try_match" /\ hart_pc'[h] # "try_match") =>
               /\ hart_pc'[h] = "held" <=> hart_swap[h] = STATE_RELEASED
               /\ hart_pc'[h] = "idle" <=> hart_swap[h] # STATE_RELEASED
               /\ mutex_state' = mutex_state
               /\ mutex_data' = mutex_data
               /\ OthersKept(h)
      ]_vars

\* A try_lock() found the Mutex Acquired and returned none while the holder
\* keeps accessing the payload.
TryLockBusyWitness ==
    \E h, g \in DOMAIN hart_pc :
        /\ hart_pc[h] = "idle" /\ hart_swap[h] = STATE_ACQUIRED
        /\ hart_pc[g] = "access"
        /\ mutex_state = STATE_ACQUIRED
        /\ mutex_data > 0

\* The positions inside a spin_lock() called by the owner of a guard.
ReSpinPcs == {"re_spin_swap", "re_spin_match"}

\* C17: the spinlock is not re-entrant: a spin_lock() called by the party that
\* holds the guard never returns, and a try_lock() called by it returns none.
NotReentrant ==
    /\ [](\A h \in DOMAIN hart_pc : hart_pc[h] # "held2")
    /\ [][\A h \in DOMAIN hart_pc :
            /\ hart_pc[h] \in ReSpinPcs => hart_pc'[h] \in ReSpinPcs
            /\ (hart_pc[h] = "re_try_match" /\ hart_pc'[h] # "re_try_match") =>
                  /\ hart_pc'[h] = "held"
                  /\ mutex_state' = STATE_ACQUIRED
         ]_vars

\* The owner of a guard spins in spin_lock() on its own Mutex after a
\* try_lock() of its own returned none, and another hart spins as well.
NotReentrantWitness ==
    \E h, g \in DOMAIN hart_pc :
        /\ hart_pc[h] = "re_spin_match" /\ hart_swap[h] = STATE_ACQUIRED
        /\ hart_pc[g] = "spin_match" /\ hart_swap[g] = STATE_ACQUIRED
        /\ mutex_data > 0

\* The harts that own the Mutex: the owner of the guard, or the hart whose
\* swap replaced Released and whose try_lock() is about to return the guard.
Owners ==
    Guards \cup {h \in DOMAIN hart_pc : /\ hart_pc[h] \in {"try_match", "spin_match"}
                                        /\ hart_swap[h] = STATE_RELEASED}

\* C16: a guard releases the lock on every exit path, the normal return and
\* the early return of Internal by do_block_operation when the page
\* allocation fails: the state is written back to Released exactly once, and
\* a later try_lock() succeeds.
GuardReleases ==
    /\ [](\A h \in DOMAIN hart_pc :
            /\ unlocks[h] <= 1
            /\ h \in Guards => unlocks[h] = 0
            /\ (hart_pc[h] = "idle" /\ blk[h].res \in {"Ok", "Internal"}) =>
                  unlocks[h] = 1)
    /\ [](Owners = {} => mutex_state = STATE_RELEASED)
    /\ [][\A h \in DOMAIN hart_pc :
            /\ (hart_pc[h] = "held" /\ hart_pc'[h] = "idle") =>
                  /\ mutex_state' = STATE_RELEASED
                  /\ unlocks'[h] = unlocks[h] + 1
            /\ (Owners = {} /\ hart_pc[h] = "try_swap" /\ hart_pc'[h] = "try_match") =>
                  hart_swap'[h] = STATE_RELEASED
         ]_vars

\* One block operation returned Internal because the allocation of its
\* request failed, its guard was released once, and a try_lock() of another
\* hart has returned a guard since.
GuardReleasesWitness ==
    \E h, g \in DOMAIN hart_pc :
        /\ hart_pc[h] = "idle" /\ blk[h].res = "Internal" /\ unlocks[h] = 1
        /\ lastOp.op = "alloc" /\ lastOp.res = "AllocError"
        /\ hart_pc[g] = "held" /\ blk[g].pc = "none" /\ blk[g].res = "Ok"

(* ------------------------------------------------------------------------ *)
(* Process table and scheduler: process/mod.rs                              *)
(* ------------------------------------------------------------------------ *)

\* The calls of spawn in the kernel: kmain and the init process.
SpawnCalls ==
    {[entry |-> "init", name |-> "[init]"], [entry |-> "shell", name |-> "[shell]"]}

\* The program counter 0 that exit() stores.
NullPc == "0x0"

\* The address in wait() right after the call of asm_process_switch.
WaitRet == "wait_ret"

\* A slot of a process page that was never written.
UninitProcess ==
    [pid |-> NoPid, parent_pid |-> NoPid, stack_start |-> 0, stack_end |-> 0,
     context |-> [pc |-> "uninit", sp |-> 0, sx |-> 0],
     name |-> "", state |-> "Uninit"]

\* A process page as alloc returns it: PROCESS_COUNT_PER_PAGE slots and the
\* trailing slot that holds the link to the next page; nothing is written yet.
UninitPage ==
    [slots |-> [k \in 0..(PROCESS_COUNT_PER_PAGE - 1) |-> UninitProcess],
     next |-> Dangling]

\* The record a process pointer points to.
Deref(mem, ptr) == mem[ptr.page].slots[ptr.idx]

\* ProcessIter: the pointers iter() yields from the position (page, slot) with
\* the counter at index, for a table of count processes.
RECURSIVE ProcessIterFrom(_, _, _, _, _)
ProcessIterFrom(mem, count, page, slot, index) ==
    IF index >= count
    THEN <<>>
    ELSE LET hop == index > 0 /\ index % PROCESS_COUNT_PER_PAGE = 0
             pg == IF hop THEN mem[page].next ELSE page
             sl == IF hop THEN 0 ELSE slot
             ptr == [page |-> pg, idx |-> sl]
         IN  (IF Deref(mem, ptr).state # "Invalid" THEN <<ptr>> ELSE <<>>)
             \o ProcessIterFrom(mem, count, pg, sl + 1, index + 1)

\* An iterator that starts at the second entry of the table.
iterSkipFirst(mem, count, first) == ProcessIterFrom(mem, count, first, 1, 1)

\* iter(): all process pointers, in table order.
iter(mem, count, first) == ProcessIterFrom(mem, count, first, 0, 0)

\* get_next_process that takes the first runnable process of the table.
RECURSIVE GetNextScanFirst(_, _, _, _, _, _)
GetNextScanFirst(mem, procs, k, current_pid, first_process, passed_current) ==
    IF k > Len(procs)
    THEN first_process
    ELSE IF Deref(mem, procs[k]).pid = current_pid
         THEN GetNextScanFirst(mem, procs, k + 1, current_pid, first_process, TRUE)
         ELSE IF Deref(mem, procs[k]).state \in {"Spawned", "Waiting"}
              THEN procs[k]
              ELSE GetNextScanFirst(mem, procs, k + 1, current_pid,
                                    first_process, passed_current)

\* A scan that stops at the end of the table instead of falling back to the
\* first runnable process before the current one.
RECURSIVE GetNextScanNoWrap(_, _, _, _, _, _)
GetNextScanNoWrap(mem, procs, k, current_pid, first_process, passed_current) ==
    IF k > Len(procs)
    THEN NoProcess
    ELSE IF Deref(mem, procs[k]).pid = current_pid
         THEN GetNextScanNoWrap(mem, procs, k + 1, current_pid, first_process, TRUE)
         ELSE IF Deref(mem, procs[k]).state \in {"Spawned", "Waiting"} /\ passed_current
              THEN procs[k]
              ELSE GetNextScanNoWrap(mem, procs, k + 1, current_pid,
                                     first_process, passed_current)

\* The loop of get_next_process over the pointers procs, from the k-th on.
RECURSIVE GetNextScan(_, _, _, _, _, _)
GetNextScan(mem, procs, k, current_pid, first_process, passed_current) ==
    IF k > Len(procs)
    THEN first_process
    ELSE IF Deref(mem, procs[k]).pid = current_pid
         THEN GetNextScan(mem, procs, k + 1, current_pid, first_process, TRUE)
         ELSE IF Deref(mem, procs[k]).state \in {"Spawned", "Waiting"}
              THEN IF passed_current
                   THEN procs[k]
                   ELSE GetNextScan(mem, procs, k + 1, current_pid,
                                    IF first_process = NoProcess THEN procs[k]
                                                                 ELSE first_process,
                                    passed_current)
              ELSE GetNextScan(mem, procs, k + 1, current_pid,
                               first_process, passed_current)

\* get_next_process(current_pid): a process pointer, or NoProcess.
get_next_process(mem, count, first, current_pid) ==
    GetNextScan(mem, iter(mem, count, first), 1, current_pid, NoProcess, FALSE)

\* A page walk that stays on the first page.
ByPidPageStay(mem, process_page, page_idx) == process_page

\* The page walk of by_pid.
RECURSIVE ByPidPage(_, _, _)
ByPidPage(mem, process_page, page_idx) ==
    IF page_idx > 0
    THEN ByPidPage(mem, mem[process_page].next, page_idx - 1)
    ELSE process_page

\* by_pid(pid): the pointer to the record of pid.
by_pid(mem, first, pid) ==
    [page |-> ByPidPage(mem, first, pid \div PROCESS_COUNT_PER_PAGE),
     idx |-> pid % PROCESS_COUNT_PER_PAGE]

\* The state field of every process, by pid.
StatesOf(mem, count, first) ==
    [pid \in 0..(count - 1) |-> Deref(mem, by_pid(mem, first, pid)).state]

\* The pid a process pointer stands for, NoPid for NoProcess.
PidOf(mem, ptr) == IF ptr = NoProcess THEN NoPid ELSE Deref(mem, ptr).pid

\* The context-switch operation: the caller's program counter, stack pointer
\* and saved registers are persisted in the record from, those of the record
\* to are loaded, and control transfers to the loaded program counter.
asm_process_switch(mem, to, from, h) ==
    [mem |-> [mem EXCEPT ![from.page].slots[from.idx].context =
                             [pc |-> WaitRet, sp |-> h.sp, sx |-> h.sx]],
     hart |-> [mode |-> "run",
               pc |-> Deref(mem, to).context.pc,
               sp |-> Deref(mem, to).context.sp,
               sx |-> Deref(mem, to).context.sx]]

\* The no-return variant: no context is saved.
asm_process_switch_noreturn(mem, to) ==
    [mode |-> "run",
     pc |-> Deref(mem, to).context.pc,
     sp |-> Deref(mem, to).context.sp,
     sx |-> Deref(mem, to).context.sx]

\* The calls of wait() that are still pending once the process to is given
\* control: a process that resumes right after the switch in wait() returns
\* from its call.
Resumed(pending, mem, to) ==
    IF Deref(mem, to).context.pc = WaitRet
    THEN pending \ {Deref(mem, to).pid}
    ELSE pending

\* The record of the dispatches with one more of them.
Traced(op, pid) ==
    IF Len(trace) < MaxTrace
    THEN Append(trace, [op |-> op, to |-> pid, n |-> PROCESS_COUNT])
    ELSE trace

\* The record of a process-manager call.
Sched(op, by, to, res) ==
    [op |-> op, by |-> by, to |-> to, res |-> res,
     before |-> StatesOf(proc_mem, PROCESS_COUNT, FIRST_PROCESS_PAGE)]

\* init(): the first process page is allocated.
process_init ==
    /\ hart.mode = "boot"
    /\ PROCESS_PAGE_COUNT = 0
    /\ LET st == DoAlloc(AllocState, 1)
       IN  /\ AllocBecomes(st)
           /\ IF st.lastOp.res = "Ok"
              THEN /\ FIRST_PROCESS_PAGE' = st.lastOp.ptr
                   /\ LAST_PROCESS_PAGE' = st.lastOp.ptr
                   /\ PROCESS_PAGE_COUNT' = 1
                   /\ proc_mem' = (st.lastOp.ptr :> UninitPage) @@ proc_mem
                   /\ hart' = hart
                   /\ lastSched' = Sched("init", NoPid, NoPid, "done")
              ELSE /\ hart' = Panicked
                   /\ lastSched' = Sched("init", NoPid, NoPid, "panic")
                   /\ UNCHANGED <<FIRST_PROCESS_PAGE, LAST_PROCESS_PAGE,
                                  PROCESS_PAGE_COUNT, proc_mem>>
    /\ UNCHANGED <<PROCESS_COUNT, RUNNING_PROCESS, inWait, trace, lockVars, blockVars>>

\* init() of the process manager, called by kmain.
ProcessInit == process_init /\ UNCHANGED <<devVars, bootVars>>

\* A pid choice that reuses the pid of a Dead process of the first page.
NewPidReuseDead(mem, count, first) ==
    LET dead == {k \in 0..(count - 1) :
                    /\ k < PROCESS_COUNT_PER_PAGE
                    /\ mem[first].slots[k].state = "Dead"}
    IN  IF dead # {} THEN CHOOSE k \in dead : \A j \in dead : k <= j ELSE count

\* The pid spawn() gives to the new process: the number of processes
\* allocated so far, dead or not; old entries are not reused.
NewPid(mem, count, first) == count

\* A record whose saved stack pointer is the start of the stack page.
SpawnedProcessLowSp(pid, stack_ptr, call) ==
    [pid |-> pid, parent_pid |-> 0,
     stack_start |-> stack_ptr,
     stack_end |-> stack_ptr + PAGE_SIZE,
     context |-> [pc |-> call.entry, sp |-> stack_ptr, sx |-> 0],
     name |-> call.name, state |-> "Spawned"]

\* The record spawn() writes for the process pid with the stack page at
\* stack_ptr.
SpawnedProcess(pid, stack_ptr, call) ==
    [pid |-> pid, parent_pid |-> 0,
     stack_start |-> stack_ptr,
     stack_end |-> stack_ptr + PAGE_SIZE,
     context |-> [pc |-> call.entry, sp |-> stack_ptr + PAGE_SIZE, sx |-> 0],
     name |-> call.name, state |-> "Spawned"]

\* spawn(entry_point, name), called by kmain or by the running process.
spawn(call) ==
    /\ hart.mode \in {"boot", "run"}
    /\ PROCESS_PAGE_COUNT >= 1
    /\ LET by == PidOf(proc_mem, RUNNING_PROCESS)
           grow == PROCESS_COUNT > 0 /\ PROCESS_COUNT % PROCESS_COUNT_PER_PAGE = 0
           st1 == IF grow THEN DoAlloc(AllocState, 1) ELSE AllocState
           grown == grow /\ st1.lastOp.res = "Ok"
           new_process_page == st1.lastOp.ptr
           mem1 == IF grown
                   THEN (new_process_page :> UninitPage)
                        @@ [proc_mem EXCEPT ![LAST_PROCESS_PAGE].next = new_process_page]
                   ELSE proc_mem
           last1 == IF grown THEN new_process_page ELSE LAST_PROCESS_PAGE
           count1 == IF grown THEN PROCESS_PAGE_COUNT + 1 ELSE PROCESS_PAGE_COUNT
           st2 == DoAlloc(st1, 1)
           stack_ptr == st2.lastOp.ptr
           pid == NewPid(proc_mem, PROCESS_COUNT, FIRST_PROCESS_PAGE)
           process_index == pid - (count1 - 1) * PROCESS_COUNT_PER_PAGE
           process == SpawnedProcess(pid, stack_ptr, call)
       IN  IF grow /\ ~grown
           THEN /\ AllocBecomes(st1)
                /\ hart' = Panicked
                /\ lastSched' = Sched("spawn", by, NoPid, "panic")
                /\ UNCHANGED <<PROCESS_COUNT, PROCESS_PAGE_COUNT,
                               LAST_PROCESS_PAGE, proc_mem>>
           ELSE /\ AllocBecomes(st2)
                /\ LAST_PROCESS_PAGE' = last1
                /\ PROCESS_PAGE_COUNT' = count1
                /\ IF st2.lastOp.res = "Ok"
                   THEN /\ proc_mem' = [mem1 EXCEPT
                                          ![last1].slots[process_index] = process]
                        /\ PROCESS_COUNT' = PROCESS_COUNT + 1
                        /\ hart' = hart
                        /\ lastSched' = Sched("spawn", by, pid, "done")
                   ELSE /\ proc_mem' = mem1
                        /\ PROCESS_COUNT' = PROCESS_COUNT
                        /\ hart' = Panicked
                        /\ lastSched' = Sched("spawn", by, NoPid, "panic")
    /\ UNCHANGED <<FIRST_PROCESS_PAGE, RUNNING_PROCESS, inWait, trace, lockVars, blockVars>>

\* spawn() while the table has fewer than MaxProcs processes.
Spawn(call) ==
    PROCESS_COUNT < MaxProcs /\ spawn(call) /\ UNCHANGED <<devVars, bootVars>>

\* start_schedule(), called by kmain.
start_schedule ==
    /\ hart.mode = "boot"
    /\ PROCESS_PAGE_COUNT >= 1
    /\ LET procs == iter(proc_mem, PROCESS_COUNT, FIRST_PROCESS_PAGE)
       IN  IF procs # <<>>
           THEN /\ RUNNING_PROCESS' = procs[1]
                /\ hart' = asm_process_switch_noreturn(proc_mem, procs[1])
                /\ inWait' = Resumed(inWait, proc_mem, procs[1])
                /\ trace' = Traced("start", PidOf(proc_mem, procs[1]))
                /\ lastSched' = Sched("start", NoPid, PidOf(proc_mem, procs[1]),
                                      "switched")
           ELSE /\ hart' = Aborted
                /\ lastSched' = Sched("start", NoPid, NoPid, "halted")
                /\ UNCHANGED <<RUNNING_PROCESS, inWait, trace>>
    /\ UNCHANGED <<PROCESS_COUNT, PROCESS_PAGE_COUNT, FIRST_PROCESS_PAGE,
                   LAST_PROCESS_PAGE, proc_mem, allocVars, lockVars, blockVars>>

\* Wait that marks the caller Waiting but does not record the chosen process.
WaitKeepRunning ==
    /\ hart.mode = "run"
    /\ RUNNING_PROCESS # NoProcess
    /\ LET current_process == RUNNING_PROCESS
           pid == Deref(proc_mem, current_process).pid
           next_process == get_next_process(proc_mem, PROCESS_COUNT,
                                            FIRST_PROCESS_PAGE, pid)
           mem1 == [proc_mem EXCEPT
                      ![current_process.page].slots[current_process.idx].state =
                          "Waiting"]
           sw == asm_process_switch(mem1, next_process, current_process, hart)
       IN  /\ next_process # NoProcess
           /\ proc_mem' = sw.mem
           /\ hart' = sw.hart
           /\ inWait' = Resumed(inWait, mem1, next_process) \cup {pid}
           /\ trace' = Traced("wait", PidOf(proc_mem, next_process))
           /\ lastSched' = Sched("wait", pid, PidOf(proc_mem, next_process),
                                 "switched")
    /\ UNCHANGED <<RUNNING_PROCESS, PROCESS_COUNT, PROCESS_PAGE_COUNT,
                   FIRST_PROCESS_PAGE, LAST_PROCESS_PAGE, allocVars, lockVars, blockVars>>

\* start_schedule() with the rest of the machine left alone.
StartSchedule == start_schedule /\ UNCHANGED <<devVars, bootVars>>

\* wait() that marks the caller Waiting before it looks for a process to
\* switch to.
WaitMarkFirst ==
    /\ hart.mode \in {"boot", "run"}
    /\ IF RUNNING_PROCESS # NoProcess
       THEN LET current_process == RUNNING_PROCESS
                pid == Deref(proc_mem, current_process).pid
                next_process == get_next_process(proc_mem, PROCESS_COUNT,
                                                 FIRST_PROCESS_PAGE, pid)
                mem1 == [proc_mem EXCEPT
                           ![current_process.page].slots[current_process.idx].state =
                               "Waiting"]
                sw == asm_process_switch(mem1, next_process, current_process, hart)
            IN  IF next_process # NoProcess
                THEN /\ proc_mem' = sw.mem
                     /\ RUNNING_PROCESS' = next_process
                     /\ hart' = sw.hart
                     /\ inWait' = Resumed(inWait, mem1, next_process) \cup {pid}
                     /\ trace' = Traced("wait", PidOf(proc_mem, next_process))
                     /\ lastSched' = Sched("wait", pid,
                                           PidOf(proc_mem, next_process), "switched")
                ELSE /\ lastSched' = Sched("wait", pid, NoPid, "returned")
                     /\ proc_mem' = mem1
                     /\ UNCHANGED <<RUNNING_PROCESS, hart, inWait, trace>>
       ELSE /\ lastSched' = Sched("wait", NoPid, NoPid, "returned")
            /\ UNCHANGED <<proc_mem, RUNNING_PROCESS, hart, inWait, trace>>
    /\ UNCHANGED <<PROCESS_COUNT, PROCESS_PAGE_COUNT, FIRST_PROCESS_PAGE,
                   LAST_PROCESS_PAGE, allocVars, lockVars, blockVars>>

\* wait(), called by the running process or, with no process running, by kmain.
wait ==
    /\ hart.mode \in {"boot", "run"}
    /\ IF RUNNING_PROCESS # NoProcess
       THEN LET current_process == RUNNING_PROCESS
                pid == Deref(proc_mem, current_process).pid
                next_process == get_next_process(proc_mem, PROCESS_COUNT,
                                                 FIRST_PROCESS_PAGE, pid)
                mem1 == [proc_mem EXCEPT
                           ![current_process.page].slots[current_process.idx].state =
                               "Waiting"]
                sw == asm_process_switch(mem1, next_process, current_process, hart)
            IN  IF next_process # NoProcess
                THEN /\ proc_mem' = sw.mem
                     /\ RUNNING_PROCESS' = next_process
                     /\ hart' = sw.hart
                     /\ inWait' = Resumed(inWait, mem1, next_process) \cup {pid}
                     /\ trace' = Traced("wait", PidOf(proc_mem, next_process))
                     /\ lastSched' = Sched("wait", pid,
                                           PidOf(proc_mem, next_process), "switched")
                ELSE /\ lastSched' = Sched("wait", pid, NoPid, "returned")
                     /\ UNCHANGED <<proc_mem, RUNNING_PROCESS, hart, inWait, trace>>
       ELSE /\ lastSched' = Sched("wait", NoPid, NoPid, "returned")
            /\ UNCHANGED <<proc_mem, RUNNING_PROCESS, hart, inWait, trace>>
    /\ UNCHANGED <<PROCESS_COUNT, PROCESS_PAGE_COUNT, FIRST_PROCESS_PAGE,
                   LAST_PROCESS_PAGE, allocVars, lockVars, blockVars>>

\* wait() with the rest of the machine left alone.
Wait == wait /\ UNCHANGED <<devVars, bootVars>>

\* exit that leaves the state of the exiting process as it is.
ExitMarkNothing(mem, process) == mem

\* exit marks the current process Dead.
ExitMarkDead(mem, process) ==
    [mem EXCEPT ![process.page].slots[process.idx].state = "Dead"]

\* exit(), called by the running process (also by returning from its entry
\* point) or, with no process running, by kmain.
exit ==
    /\ hart.mode \in {"boot", "run"}
    /\ IF RUNNING_PROCESS # NoProcess
       THEN LET current_process == RUNNING_PROCESS
                pid == Deref(proc_mem, current_process).pid
                mem1 == ExitMarkDead(proc_mem, current_process)
                st == DoDealloc(AllocState,
                                Deref(proc_mem, current_process).stack_start)
                mem2 == [mem1 EXCEPT
                           ![current_process.page].slots[current_process.idx].context =
                               [@ EXCEPT !.pc = NullPc, !.sp = 0]]
                next_process == get_next_process(mem2, PROCESS_COUNT,
                                                 FIRST_PROCESS_PAGE, pid)
            IN  /\ AllocBecomes(st)
                /\ IF st.lastOp.res # "Ok"
                   THEN /\ proc_mem' = mem1
                        /\ hart' = Panicked
                        /\ lastSched' = Sched("exit", pid, NoPid, "panic")
                        /\ UNCHANGED <<RUNNING_PROCESS, inWait, trace>>
                   ELSE /\ proc_mem' = mem2
                        /\ IF next_process # NoProcess
                           THEN /\ RUNNING_PROCESS' = next_process
                                /\ hart' = asm_process_switch_noreturn(mem2, next_process)
                                /\ inWait' = Resumed(inWait, mem2, next_process)
                                /\ trace' = Traced("exit", PidOf(mem2, next_process))
                                /\ lastSched' = Sched("exit", pid,
                                                      PidOf(mem2, next_process),
                                                      "switched")
                           ELSE /\ hart' = Aborted
                                /\ lastSched' = Sched("exit", pid, NoPid, "halted")
                                /\ UNCHANGED <<RUNNING_PROCESS, inWait, trace>>
       ELSE /\ hart' = Aborted
            /\ lastSched' = Sched("exit", NoPid, NoPid, "halted")
            /\ UNCHANGED <<proc_mem, RUNNING_PROCESS, inWait, trace, allocVars>>
    /\ UNCHANGED <<PROCESS_COUNT, PROCESS_PAGE_COUNT, FIRST_PROCESS_PAGE,
                   LAST_PROCESS_PAGE, lockVars, blockVars>>

\* exit() with the rest of the machine left alone.
Exit == exit /\ UNCHANGED <<devVars, bootVars>>

SchedInit ==
    /\ AllocStart(SchedPages) /\ LockStart({}) /\ SchedStart /\ BlockStart({})
    /\ DevStart({}, {}) /\ BootStart

SchedNext ==
    \/ ProcessInit
    \/ \E call \in SpawnCalls : Spawn(call)
    \/ StartSchedule
    \/ Wait
    \/ Exit

SpecSched == SchedInit /\ [][SchedNext]_vars

(* ------------------------------------------------------------------------ *)
(* Formatting: core::fmt as println! uses it                                *)
(* ------------------------------------------------------------------------ *)

\* The digit characters.
DigitChars ==
    <<"0", "1", "2", "3", "4", "5", "6", "7", "8", "9", "A", "B", "C", "D", "E", "F">>

\* {:X}: the digits of n in base 16, upper case, most significant first.
RECURSIVE UpperHex(_)
UpperHex(n) ==
    IF n < 16 THEN <<DigitChars[n + 1]>>
    ELSE UpperHex(n \div 16) \o <<DigitChars[(n % 16) + 1]>>

\* {}: the digits of n in base 10.
RECURSIVE Decimal(_)
Decimal(n) ==
    IF n < 10 THEN <<DigitChars[n + 1]>>
    ELSE Decimal(n \div 10) \o <<DigitChars[(n % 10) + 1]>>

\* The 0 flag with a width: zeros in front up to width characters; longer
\* text is left as it is.
RECURSIVE ZeroPad(_, _)
ZeroPad(digits, width) ==
    IF Len(digits) >= width THEN digits ELSE ZeroPad(<<"0">> \o digits, width)

\* {:0wX}.
FormatUpperHex(n, width) == ZeroPad(UpperHex(n), width)

(* ------------------------------------------------------------------------ *)
(* Block operations on several devices                                      *)
(* ------------------------------------------------------------------------ *)

\* The block devices load_block_device registered, one Mutex each.
Devices == 0..(NumDevices - 1)

\* The arguments of the block operations issued on the devices.
DeviceInputs == {in \in BlockInputs : in.off = 0}

\* A hart calls do_block_operation on the device d: it starts with
\* data.spin_lock() on the Mutex of that device.
DevOpCall(h, d) ==
    /\ dev_op[h].pc = "idle"
    /\ dev_op' = [dev_op EXCEPT ![h] = [NoDevOp EXCEPT !.pc = "spin_lock",
                                                       !.dev = d]]
    /\ UNCHANGED <<devices, allocVars, lockVars, schedVars, blockVars, bootVars>>

\* One round of spin_lock() on the Mutex of the device: try_lock() swaps
\* Acquired into its state and returns a guard when it was Released.
DevSpinLock(h) ==
    /\ dev_op[h].pc = "spin_lock"
    /\ LET d == dev_op[h].dev
           swap == amoswap(devices[d].state, STATE_ACQUIRED)
       IN  /\ devices' = [devices EXCEPT ![d].state = swap.mem]
           /\ dev_op' = IF try_lock_match(swap.rd)
                        THEN [dev_op EXCEPT ![h].pc = "alloc_scan"]
                        ELSE dev_op
    /\ UNCHANGED <<allocVars, lockVars, schedVars, blockVars, bootVars>>

\* alloc(size_of request) under the guard of the device, first half: the
\* loop over the page metadata that looks for a free run.  When none is found
\* alloc returns Err and do_block_operation returns Internal.
DevAllocScan(h) ==
    /\ dev_op[h].pc = "alloc_scan"
    /\ LET scan == AllocScan(pages, SizeOfBlockRequest,
                             PageStartOf(PagesLen(pages)), 0, 0)
       IN  IF scan.found
           THEN /\ dev_op' = [dev_op EXCEPT ![h].pc = "alloc_mark",
                                            ![h].first_page = scan.first_page]
                /\ UNCHANGED allocVars
           ELSE /\ dev_op' = [dev_op EXCEPT ![h].pc = "drop",
                                            ![h].res = "Internal"]
                /\ lastOp' = [op |-> "alloc", arg |-> SizeOfBlockRequest,
                              res |-> "AllocError", ptr |-> 0, before |-> pages]
                /\ prevOp' = lastOp
                /\ UNCHANGED <<pages, allocated>>
    /\ UNCHANGED <<devices, lockVars, schedVars, blockVars, bootVars>>

\* alloc, second half: the pages of the run that the scan found are marked
\* and its address is returned.
DevAllocMark(h) ==
    /\ dev_op[h].pc = "alloc_mark"
    /\ LET first_page == dev_op[h].first_page
           ptr == PageAddr(first_page)
       IN  /\ pages' = AllocMark(pages, first_page, SizeOfBlockRequest)
           /\ allocated' = WithRun(allocated, RunOf(ptr, SizeOfBlockRequest))
           /\ lastOp' = [op |-> "alloc", arg |-> SizeOfBlockRequest,
                         res |-> "Ok", ptr |-> ptr, before |-> pages]
           /\ prevOp' = lastOp
           /\ dev_op' = [dev_op EXCEPT ![h].pc = "submit", ![h].req = ptr]
    /\ UNCHANGED <<devices, lockVars, schedVars, blockVars, bootVars>>

\* The rest of do_block_operation on the device: the request is filled in,
\* its descriptors are queued on the queue of the device and the device is
\* notified.
DevSubmit(h) ==
    /\ dev_op[h].pc = "submit"
    /\ \E in \in DeviceInputs :
          /\ blk_mem' = Store(blk_mem, dev_op[h].req, BlockRequestOf(in))
          /\ devices' = [devices EXCEPT ![dev_op[h].dev].queue =
                                            QueueSubmit(@, dev_op[h].req, in)]
    /\ dev_op' = [dev_op EXCEPT ![h].pc = "drop", ![h].res = "Ok"]
    /\ UNCHANGED <<blk, queue, allocVars, lockVars, schedVars, bootVars>>

\* do_block_operation returns: the guard of the device is dropped.
DevDrop(h) ==
    /\ dev_op[h].pc = "drop"
    /\ devices' = [devices EXCEPT ![dev_op[h].dev].state =
                                      amoswap(@, STATE_RELEASED).mem]
    /\ dev_op' = [dev_op EXCEPT ![h] = [NoDevOp EXCEPT !.res = dev_op[h].res]]
    /\ UNCHANGED <<allocVars, lockVars, schedVars, blockVars, bootVars>>

DevicesInit ==
    /\ AllocStart(BlockPages) /\ LockStart({}) /\ SchedStart /\ BlockStart({})
    /\ DevStart(Harts, Devices) /\ BootStart

DevicesNext ==
    \E h \in Harts :
        \/ \E d \in Devices : DevOpCall(h, d)
        \/ DevSpinLock(h)
        \/ DevAllocScan(h)
        \/ DevAllocMark(h)
        \/ DevSubmit(h)
        \/ DevDrop(h)

SpecDevices == DevicesInit /\ [][DevicesNext]_vars

(* ------------------------------------------------------------------------ *)
(* The process manager on a heap that runs out of pages                     *)
(* ------------------------------------------------------------------------ *)

TightInit ==
    /\ AllocStart(TightPages) /\ LockStart({}) /\ SchedStart /\ BlockStart({})
    /\ DevStart({}, {}) /\ BootStart

SpecTight == TightInit /\ [][SchedNext]_vars

(* ------------------------------------------------------------------------ *)
(* A process table of more than one page                                    *)
(* ------------------------------------------------------------------------ *)

\* spawn() while the table has fewer than ChainProcs processes.
ChainSpawn(call) ==
    PROCESS_COUNT < ChainProcs /\ spawn(call) /\ UNCHANGED <<devVars, bootVars>>

ChainInit ==
    /\ AllocStart(ChainPages) /\ LockStart({}) /\ SchedStart /\ BlockStart({})
    /\ DevStart({}, {}) /\ BootStart

ChainNext ==
    \/ ProcessInit
    \/ \E call \in SpawnCalls : ChainSpawn(call)

SpecChain == ChainInit /\ [][ChainNext]_vars

(* ------------------------------------------------------------------------ *)
(* Processes that run a program                                             *)
(* ------------------------------------------------------------------------ *)

\* Entry functions handed to spawn(): "once" calls wait() once and returns,
\* "spin" loops forever without a call, "yield" is loop { wait(); } as in the
\* built-in init, and "shell" returns at once as the built-in shell does.
RunCalls ==
    {[entry |-> "once", name |-> "A"],
     [entry |-> "spin", name |-> "B"],
     [entry |-> "yield", name |-> "B_yield"],
     [entry |-> "shell", name |-> "[shell]"]}

\* The name of the running process.
RunningName ==
    IF RUNNING_PROCESS = NoProcess THEN ""
    ELSE Deref(proc_mem, RUNNING_PROCESS).name

\* The running process is past a call of wait(): it was resumed after the
\* switch in wait(), or its call found nothing to switch to and returned.
ReturnedFromWait ==
    \/ hart.pc = WaitRet
    \/ /\ lastSched.op = "wait" /\ lastSched.res = "returned"
       /\ lastSched.by = PidOf(proc_mem, RUNNING_PROCESS)

\* The next call of the running process is wait().
CallsWait ==
    /\ hart.mode = "run"
    /\ \/ RunningName = "B_yield"
       \/ RunningName = "A" /\ ~ReturnedFromWait

\* The running process returns from its entry function, which makes it exit.
CallsExit ==
    /\ hart.mode = "run"
    /\ \/ RunningName = "[shell]"
       \/ RunningName = "A" /\ ReturnedFromWait

\* kmain spawns a process before it starts the schedule.
RunSpawn(call) == hart.mode = "boot" /\ Spawn(call)

\* The running process reaches its call of wait().
RunWait == CallsWait /\ Wait

\* The running process returns from its entry function into exit().
RunExit == CallsExit /\ Exit

RunNext ==
    \/ ProcessInit
    \/ \E call \in RunCalls : RunSpawn(call)
    \/ StartSchedule
    \/ RunWait
    \/ RunExit

\* The hart keeps executing: a process that is at a call makes it.
SpecRun ==
    SchedInit /\ [][RunNext]_vars /\ WF_vars(RunWait) /\ WF_vars(RunExit)

(* ------------------------------------------------------------------------ *)
(* Startup and the fatal trap path: main.rs                                 *)
(* ------------------------------------------------------------------------ *)

\* VirtioDriver<0x1000_1000, 0x1000, _>: the address of the first slot and
\* the distance between slots.
VIRTIO_ADDR == 268439552
VIRTIO_STRIDE == 4096

\* QueueHandler::PAGES_COUNT for a queue of VIRTIO_QUEUE_SIZE entries.
QUEUE_PAGES_COUNT == 2

\* What a virtio slot holds: no virtio magic value, device id 0, a network
\* device, a version 1 block device that accepts the features and has a queue
\* of VIRTIO_QUEUE_SIZE entries, or a block device of version 2.
SlotKinds == {"invalid_magic", "not_connected", "network", "block", "block_v2"}

\* The fault codes handed to kpanic.
FaultCodes == 0..MaxFaultCode \cup {255, 256}

\* The registered block devices devs and one more.
WithDevice(devs) ==
    [d \in 0..Cardinality(DOMAIN devs) |->
        IF d \in DOMAIN devs THEN devs[d] ELSE DeviceNew]

\* The device status flags written by set_status.
StatusReset == {}
StatusAcknowledge == {"ACKNOWLEDGE"}
StatusDriver == StatusAcknowledge \cup {"DRIVER"}
StatusFeaturesOk == StatusDriver \cup {"FEATURES_OK"}
StatusDriverOk == StatusFeaturesOk \cup {"DRIVER_OK"}

\* One call on the device of the slot idx, or its registration as a block
\* device.
Mmio(idx, op, val) == [idx |-> idx, op |-> op, val |-> val]

\* What the device answers: its version, the status it reports after
\* FEATURES_OK was written, and the largest size of its queue 0.
DeviceVersion(kind) == IF kind = "block_v2" THEN 2 ELSE 1
DeviceStatusRead(kind) ==
    IF kind = "block_nofeat" THEN StatusDriver ELSE StatusFeaturesOk
DeviceQueueNumMax(kind) ==
    IF kind = "block_shortq" THEN VIRTIO_QUEUE_SIZE - 1 ELSE VIRTIO_QUEUE_SIZE

\* load_block_device that goes through the whole status sequence and
\* registers the device without looking at what the device answers and
\* without a queue.
load_block_device_eager(st, idx, kind) ==
    IF DeviceVersion(kind) # 1
    THEN [st EXCEPT !.console =
             Append(@, <<"   Version ">> \o Decimal(DeviceVersion(kind))
                       \o <<" is not suppported for block devices">>)]
    ELSE [st EXCEPT
            !.mmio = @ \o <<Mmio(idx, "set_status", StatusReset),
                           Mmio(idx, "set_status", StatusAcknowledge),
                           Mmio(idx, "set_status", StatusDriver),
                           Mmio(idx, "set_guest_features", "host_features"),
                           Mmio(idx, "set_status", StatusFeaturesOk),
                           Mmio(idx, "set_status", StatusDriverOk),
                           Mmio(idx, "register", Cardinality(DOMAIN st.devices))>>,
            !.devices = WithDevice(@),
            !.console = Append(@, <<"   Capacity of ", "capacity", " bytes">>)]

\* load_block_device on the block device of the slot idx, of the given
\* kind, in the state st (allocator, registered devices, console, calls made
\* on the devices).  A version other than 1 is refused at once; otherwise
\* the status goes through reset, ACKNOWLEDGE, DRIVER and FEATURES_OK, and
\* when the device keeps FEATURES_OK, its queue is long enough and the queue
\* pages are allocated, the queue is configured, DRIVER_OK is written and
\* the device is registered.
load_block_device(st, idx, kind) ==
    IF DeviceVersion(kind) # 1
    THEN [st EXCEPT !.console =
             Append(@, <<"   Version ">> \o Decimal(DeviceVersion(kind))
                       \o <<" is not suppported for block devices">>)]
    ELSE LET st1 == [st EXCEPT !.mmio =
                        @ \o <<Mmio(idx, "set_status", StatusReset),
                               Mmio(idx, "set_status", StatusAcknowledge),
                               Mmio(idx, "set_status", StatusDriver),
                               Mmio(idx, "set_guest_features", "host_features"),
                               Mmio(idx, "set_status", StatusFeaturesOk)>>]
         IN  IF "FEATURES_OK" \notin DeviceStatusRead(kind)
             THEN [st1 EXCEPT !.console = Append(@, <<"   Unsupported features">>)]
             ELSE
             LET st2 == [st1 EXCEPT !.mmio = Append(@, Mmio(idx, "set_queue_sel", 0))]
             IN  IF DeviceQueueNumMax(kind) < VIRTIO_QUEUE_SIZE
                 THEN [st2 EXCEPT !.console = Append(@, <<"   Queue too short">>)]
                 ELSE
                 LET a == DoAlloc(st2.alloc, QUEUE_PAGES_COUNT)
                 IN  IF a.lastOp.res # "Ok"
                     THEN [st2 EXCEPT
                             !.alloc = a,
                             !.console = Append(@, <<"   Failed queue allocation">>)]
                     ELSE [st2 EXCEPT
                             !.alloc = a,
                             !.mmio =
                                 @ \o <<Mmio(idx, "set_queue_num", VIRTIO_QUEUE_SIZE),
                                        Mmio(idx, "set_guest_page_size", PAGE_SIZE),
                                        Mmio(idx, "set_queue_pfn",
                                             a.lastOp.ptr \div PAGE_SIZE),
                                        Mmio(idx, "set_status", StatusDriverOk),
                                        Mmio(idx, "register",
                                             Cardinality(DOMAIN st.devices))>>,
                             !.devices = WithDevice(@),
                             !.console = Append(@, <<"   Capacity of ",
                                                     "capacity", " bytes">>)]

\* One round of the loop of VirtioDriver::load: the slot idx is probed.
VirtioProbe(st, idx, kind) ==
    LET probing == <<" = Probing device #">> \o Decimal(idx) \o <<" at ">>
                   \o FormatUpperHex(VIRTIO_ADDR + idx * VIRTIO_STRIDE, 8)
                   \o <<": ">>
        typ == IF kind = "network" THEN "Network" ELSE "Block"
        version == DeviceVersion(kind)
    IN  IF kind = "invalid_magic"
        THEN [st EXCEPT !.console = Append(@, probing \o <<"Invalid magic">>)]
        ELSE IF kind = "not_connected"
        THEN [st EXCEPT !.console = Append(@, probing \o <<"Not connected">>)]
        ELSE LET st1 == [st EXCEPT !.console =
                            Append(@, probing \o <<typ, " (v">>
                                      \o Decimal(version) \o <<")">>)]
                 st2 == IF kind = "network" THEN st1
                        ELSE load_block_device(st1, idx, kind)
             IN  [st2 EXCEPT !.connected = @ \cup {idx}]

\* VirtioDriver::load from the slot idx on.
RECURSIVE VirtioLoad(_, _, _)
VirtioLoad(st, slots, idx) ==
    IF idx \notin DOMAIN slots THEN st
    ELSE VirtioLoad(VirtioProbe(st, idx, slots[idx]), slots, idx + 1)

\* kmain: uart::init() (word length, FIFO, data-ready interrupt, divisor
\* 592) and the first lines.
KmainUart ==
    /\ hart.mode = "boot" /\ boot.pc = "uart"
    /\ boot' = [boot EXCEPT
                  !.pc = "page",
                  !.uart = [lcr |-> 3, fcr |-> 1, ier |-> 1,
                            dll |-> 592 % 256, dlm |-> 592 \div 256],
                  !.writes = Append(@, [reg |-> "uart.ier", val |-> 1])]
    /\ console' = console
                  \o << <<"== Starting Aves 0.1.0">>,
                        <<"== UART initialized">>,
                        <<"== On hart #">> \o Decimal(0) >>
                  \o (IF boot.misa
                      THEN << <<"== Extensions: ", "isa.extensions">> >>
                      ELSE <<>>)
    /\ UNCHANGED <<allocVars, lockVars, schedVars, blockVars, devVars>>

\* kmain: memory::page::init() and the lines of memory::page::info().
KmainPageInit ==
    /\ hart.mode = "boot" /\ boot.pc = "page"
    /\ pages' = PageInit(boot.heap)
    /\ LET start == PageStartOf(boot.heap)
           split == LD_HEAP_START + start * PAGE_SIZE
           end == LD_HEAP_START + boot.heap * PAGE_SIZE
           Range(from, to, count) ==
               FormatUpperHex(from, 8) \o <<" -> 0x">> \o FormatUpperHex(to, 8)
               \o <<" (">> \o Decimal(count) \o <<")">>
       IN  console' = console
                      \o << <<"== Page allocator initialized">>,
                            <<" = Meta: 0x">> \o Range(LD_HEAP_START, split, start),
                            <<" = Usbl: 0x">> \o Range(split, end, boot.heap - start) >>
    /\ boot' = [boot EXCEPT !.pc = "plic"]
    /\ UNCHANGED <<allocated, lastOp, prevOp, lockVars, schedVars, blockVars,
                   devVars>>

\* kmain: plic::set_threshold(0), plic::enable(10), plic::set_priority(10, 1).
KmainPlic ==
    /\ hart.mode = "boot" /\ boot.pc = "plic"
    /\ boot' = [boot EXCEPT
                  !.pc = "register",
                  !.plic = [threshold |-> 0 % 8,
                            enable |-> @.enable \cup {10},
                            priority |-> (10 :> (1 % 8)) @@ @.priority],
                  !.writes = @ \o <<[reg |-> "plic.threshold", val |-> 0],
                                   [reg |-> "plic.enable", val |-> 10],
                                   [reg |-> "plic.priority", val |-> 1]>>]
    /\ console' = Append(console, <<"== PLIC Initialized">>)
    /\ UNCHANGED <<allocVars, lockVars, schedVars, blockVars, devVars>>

\* kmain: conf::register_drivers() registers BLOCK, then VIRTIO.
KmainRegisterDrivers ==
    /\ hart.mode = "boot" /\ boot.pc = "register"
    /\ boot' = [boot EXCEPT !.pc = "load", !.drivers = <<"BLOCK", "VIRTIO">>]
    /\ UNCHANGED <<console, allocVars, lockVars, schedVars, blockVars, devVars>>

\* A loop over the drivers that goes from the last registered to the first.
KmainLoadDriverReversed ==
    /\ hart.mode = "boot" /\ boot.pc = "load"
    /\ Len(boot.loaded) < Len(boot.drivers)
    /\ LET driver == boot.drivers[Len(boot.drivers) - Len(boot.loaded)]
           st0 == [alloc |-> AllocState, devices |-> devices,
                   console |-> Append(console, <<"== Loading VirtIO">>),
                   connected |-> boot.connected, mmio |-> boot.mmio]
           st == IF driver = "VIRTIO"
                 THEN VirtioLoad(st0, boot.slots, 0)
                 ELSE [st0 EXCEPT !.console = console]
       IN  /\ AllocBecomes(st.alloc)
           /\ devices' = st.devices
           /\ console' = st.console
           /\ boot' = [boot EXCEPT
                         !.loaded = Append(@, driver),
                         !.connected = st.connected,
                         !.mmio = st.mmio,
                         !.pc = IF Len(boot.loaded) + 1 = Len(boot.drivers)
                                THEN "trap" ELSE "load"]
    /\ UNCHANGED <<dev_op, lockVars, schedVars, blockVars>>

\* kmain: one round of the loop over driver::iter(): load() of the next
\* driver.  BlockDriver::load does nothing; VirtioDriver::load probes every
\* slot.
KmainLoadDriver ==
    /\ hart.mode = "boot" /\ boot.pc = "load"
    /\ Len(boot.loaded) < Len(boot.drivers)
    /\ LET driver == boot.drivers[Len(boot.loaded) + 1]
           st0 == [alloc |-> AllocState, devices |-> devices,
                   console |-> Append(console, <<"== Loading VirtIO">>),
                   connected |-> boot.connected, mmio |-> boot.mmio]
           st == IF driver = "VIRTIO"
                 THEN VirtioLoad(st0, boot.slots, 0)
                 ELSE [st0 EXCEPT !.console = console]
       IN  /\ AllocBecomes(st.alloc)
           /\ devices' = st.devices
           /\ console' = st.console
           /\ boot' = [boot EXCEPT
                         !.loaded = Append(@, driver),
                         !.connected = st.connected,
                         !.mmio = st.mmio,
                         !.pc = IF Len(boot.loaded) + 1 = Len(boot.drivers)
                                THEN "trap" ELSE "load"]
    /\ UNCHANGED <<dev_op, lockVars, schedVars, blockVars>>

\* init_hart_zero that enables the interrupt and leaves mscratch alone.
init_hart_zero_no_frame(b) ==
    [b EXCEPT !.mie = {"MEIE"},
              !.writes = @ \o <<[reg |-> "mie", val |-> 2048]>>]

\* trap::init_hart_zero(): csrw mie with MEIE (1 << 11), then csrw mscratch
\* with the address of HART_ZERO_FRAME.
init_hart_zero(b) ==
    [b EXCEPT !.mie = {"MEIE"},
              !.mscratch = "HART_ZERO_FRAME",
              !.writes = @ \o <<[reg |-> "mie", val |-> 2048],
                               [reg |-> "mscratch", val |-> "HART_ZERO_FRAME"]>>]

\* kmain: trap::init_hart_zero().
KmainTrapInit ==
    /\ hart.mode = "boot" /\ boot.pc = "trap"
    /\ boot' = [init_hart_zero(boot) EXCEPT !.pc = "process"]
    /\ console' = Append(console, <<"== Interrupt trap initialized">>)
    /\ UNCHANGED <<allocVars, lockVars, schedVars, blockVars, devVars>>

\* The console after a call that may have panicked: the line that follows the
\* call is printed only when the call returned.
Continued(line) ==
    IF hart'.mode = "halted" THEN console ELSE Append(console, line)

\* kmain: process::init().
KmainProcessInit ==
    /\ boot.pc = "process"
    /\ process_init
    /\ boot' = [boot EXCEPT !.pc = "spawn"]
    /\ console' = Continued(<<"== Process manager initialized">>)
    /\ UNCHANGED devVars

\* kmain: process::spawn(process::builtin::init, "[init]").
KmainSpawn ==
    /\ hart.mode = "boot" /\ boot.pc = "spawn"
    /\ spawn([entry |-> "init", name |-> "[init]"])
    /\ boot' = [boot EXCEPT !.pc = "schedule"]
    /\ UNCHANGED <<console, devVars>>

\* kmain: process::start_schedule(), which does not return.
KmainStartSchedule ==
    /\ boot.pc = "schedule"
    /\ start_schedule
    /\ boot' = [boot EXCEPT !.pc = "scheduled"]
    /\ console' = Append(console, <<"== Start scheduling processes">>)
    /\ UNCHANGED devVars

\* The built-in init: it spawns the shell first.  It is the first process
\* and nothing else spawns, so it has done so once the table holds two
\* processes.
InitSpawn ==
    /\ hart.mode = "run" /\ RunningName = "[init]"
    /\ PROCESS_COUNT = 1
    /\ spawn([entry |-> "shell", name |-> "[shell]"])
    /\ UNCHANGED <<devVars, bootVars>>

\* The built-in init after the spawn: loop { wait(); }.
InitWait ==
    /\ hart.mode = "run" /\ RunningName = "[init]"
    /\ PROCESS_COUNT >= 2
    /\ Wait

\* The built-in shell returns from its entry function into exit().
ShellExit ==
    /\ hart.mode = "run" /\ RunningName = "[shell]"
    /\ Exit

\* No cause name: get_code returned None.
NoName == "None"

\* get_code that does not know the page faults.
get_code_no_page_fault(code) ==
    IF code = 0 THEN "Instruction address misaligned"
    ELSE IF code = 1 THEN "Instruction access fault"
    ELSE IF code = 2 THEN "Illegal instruction"
    ELSE IF code = 3 THEN "Breakpoint"
    ELSE IF code = 4 THEN "Load address misaligned"
    ELSE IF code = 5 THEN "Load access fault"
    ELSE IF code = 6 THEN "Store/AMO address misaligned"
    ELSE IF code = 7 THEN "Store/AMO access fault"
    ELSE NoName

\* get_code(code) of kpanic: the name of the cause, or None.
get_code(code) ==
    IF code = 0 THEN "Instruction address misaligned"
    ELSE IF code = 1 THEN "Instruction access fault"
    ELSE IF code = 2 THEN "Illegal instruction"
    ELSE IF code = 3 THEN "Breakpoint"
    ELSE IF code = 4 THEN "Load address misaligned"
    ELSE IF code = 5 THEN "Load access fault"
    ELSE IF code = 6 THEN "Store/AMO address misaligned"
    ELSE IF code = 7 THEN "Store/AMO access fault"
    ELSE IF code = 12 THEN "Instruction page fault"
    ELSE IF code = 13 THEN "Load page fault"
    ELSE IF code = 15 THEN "Store/AMO page fault"
    ELSE NoName

\* kpanic(code), entered from the trap vector on a fatal exception: two lines
\* are printed and the hart is aborted.
Kpanic(code) ==
    /\ hart.mode # "halted"
    /\ console' = console
                  \o << <<"== The hart #">> \o Decimal(0)
                        \o <<" encountered a fatal exception...">>,
                        IF get_code(code) # NoName
                        THEN <<" = Code: ", get_code(code)>>
                        ELSE <<" = Unknown code: ">> \o FormatUpperHex(code, 2) >>
    /\ hart' = Aborted
    /\ UNCHANGED <<boot, procVars, allocVars, lockVars, blockVars, devVars>>

BootInit ==
    /\ AllocStart(0) /\ LockStart({}) /\ SchedStart /\ BlockStart({})
    /\ DevStart({}, {})
    /\ \E slots \in [0..(NumSlots - 1) -> SlotKinds], misa \in BOOLEAN :
          boot = BootAt("uart", slots, misa)
    /\ console = <<>>

BootNext ==
    \/ KmainUart
    \/ KmainPageInit
    \/ KmainPlic
    \/ KmainRegisterDrivers
    \/ KmainLoadDriver
    \/ KmainTrapInit
    \/ KmainProcessInit
    \/ KmainSpawn
    \/ KmainStartSchedule
    \/ InitSpawn
    \/ InitWait
    \/ ShellExit
    \/ \E code \in FaultCodes : Kpanic(code)

SpecBoot == BootInit /\ [][BootNext]_vars

(* ------------------------------------------------------------------------ *)
(* Properties of the page allocator                                         *)
(* ------------------------------------------------------------------------ *)

(* ------------------------------------------------------------------------ *)
(* The allocator over regions with more than one metadata page              *)
(* ------------------------------------------------------------------------ *)

\* The sizes of the region, in pages (LD_HEAP_SIZE / PAGE_SIZE): small
\* regions, the largest with one metadata page and one page more.
MetaLens == {1, 3, MetaPages - 1, MetaPages}

\* Page counts asked of alloc: one page and a run of two.
MetaCounts == {1, 2}

\* Pointers handed to dealloc: into the first pages of the region.
MetaPtrs == {PageAddr(i) : i \in 0..3}

\* alloc(n), while fewer than MaxRuns runs are allocated.
MetaAlloc(n) == Len(allocated) < MaxRuns /\ AllocCall(n)

\* dealloc(ptr).
MetaDealloc(ptr) == DeallocCall(ptr)

MetaInit ==
    /\ \E len \in MetaLens : AllocStart(len)
    /\ LockStart({}) /\ SchedStart /\ BlockStart({})
    /\ DevStart({}, {}) /\ BootStart

MetaNext ==
    \/ \E n \in MetaCounts : MetaAlloc(n)
    \/ \E ptr \in MetaPtrs : MetaDealloc(ptr)

SpecMeta == MetaInit /\ [][MetaNext]_vars

(* ------------------------------------------------------------------------ *)
(* Boot with the built-in processes and no fatal exception                  *)
(* ------------------------------------------------------------------------ *)

BuiltinNext ==
    \/ KmainUart
    \/ KmainPageInit
    \/ KmainPlic
    \/ KmainRegisterDrivers
    \/ KmainLoadDriver
    \/ KmainTrapInit
    \/ KmainProcessInit
    \/ KmainSpawn
    \/ KmainStartSchedule
    \/ InitSpawn
    \/ InitWait
    \/ ShellExit

\* Hart #0 keeps executing the running process: init and the shell go on to
\* their next call.
SpecBuiltin ==
    /\ BootInit /\ [][BuiltinNext]_vars
    /\ WF_vars(InitSpawn) /\ WF_vars(InitWait) /\ WF_vars(ShellExit)

(* ------------------------------------------------------------------------ *)
(* spin_lock() against a holder that releases                               *)
(* ------------------------------------------------------------------------ *)

\* A hart calls spin_lock(); every hart does so once, so a hart that has
\* dropped its guard does not come back for the lock.
SpinLockOnce(h) == unlocks[h] = 0 /\ SpinLockCall(h)

SpinNext ==
    \E h \in Harts :
        \/ SpinLockOnce(h)
        \/ TryLockSwap(h)
        \/ SpinLockLoop(h)
        \/ GuardDeref(h)
        \/ GuardWrite(h)
        \/ GuardDrop(h)

\* Every hart keeps executing, so the retry loop of spin_lock() goes on and
\* a write through the guard completes (weak fairness of these steps), and a
\* holder eventually drops its guard however often it uses the payload
\* (strong fairness of the drop).
SpecSpin ==
    /\ LockInit /\ [][SpinNext]_vars
    /\ \A h \in Harts :
          /\ WF_vars(TryLockSwap(h))
          /\ WF_vars(SpinLockLoop(h))
          /\ WF_vars(GuardWrite(h))
          /\ SF_vars(GuardDrop(h))

(* ------------------------------------------------------------------------ *)
(* The bring-up of the block devices on a small heap                        *)
(* ------------------------------------------------------------------------ *)

\* What a virtio slot holds here: as at boot, or a block device that drops
\* FEATURES_OK, or one whose queue 0 is shorter than VIRTIO_QUEUE_SIZE.
ProbeKinds == SlotKinds \cup {"block_nofeat", "block_shortq"}

\* kmain starts on a heap region of BringupPages pages.
BringupInit ==
    /\ AllocStart(0) /\ LockStart({}) /\ SchedStart /\ BlockStart({})
    /\ DevStart({}, {})
    /\ \E slots \in [0..(NumSlots - 1) -> ProbeKinds], misa \in BOOLEAN :
          boot = [BootAt("uart", slots, misa) EXCEPT !.heap = BringupPages]
    /\ console = <<>>

\* kmain up to the end of its loop over the drivers.
BringupNext ==
    \/ KmainUart
    \/ KmainPageInit
    \/ KmainPlic
    \/ KmainRegisterDrivers
    \/ KmainLoadDriver

SpecBringup == BringupInit /\ [][BringupNext]_vars

SetMin(S) == CHOOSE x \in S : \A y \in S : x <= y

\* The first index of the pages that hold no metadata of their own.
PAGE_START == PageStartOf(PagesLen(pages))

\* C1: the runs returned by alloc and not yet deallocated are pairwise
\* disjoint, lie inside the region, and none contains a page of the reserved
\* metadata prefix.
AllocatedRunsDisjoint ==
    /\ \A j, k \in 1..Len(allocated) :
          j # k => RunPages(allocated[j]) \cap RunPages(allocated[k]) = {}
    /\ \A j \in 1..Len(allocated) :
          \A i \in RunPages(allocated[j]) : i >= PAGE_START /\ i < PagesLen(pages)

\* Three runs are allocated, the last one of several pages and placed by an
\* alloc that followed a successful dealloc.
AllocatedRunsWitness ==
    /\ Len(allocated) >= 3
    /\ lastOp.op = "alloc" /\ lastOp.res = "Ok" /\ lastOp.arg >= 2
    /\ prevOp.op = "dealloc" /\ prevOp.res = "Ok"

\* C7: no free page is marked first; every allocated run is one first|taken
\* page followed by taken-not-first pages; every taken page outside the
\* metadata prefix belongs to an allocated run, and a taken-not-first one is
\* preceded by a taken page of its run.
PageMetadataInvariant ==
    /\ \A i \in DOMAIN pages : ~is_taken(pages[i]) => pages[i] = EMPTY
    /\ \A j \in 1..Len(allocated) :
          /\ pages[allocated[j].first] = TAKEN \cup FIRST
          /\ \A i \in RunPages(allocated[j]) \ {allocated[j].first} :
                pages[i] = TAKEN
    /\ \A i \in PAGE_START..(PagesLen(pages) - 1) :
          /\ is_taken(pages[i]) =>
                \E j \in 1..Len(allocated) : i \in RunPages(allocated[j])
          /\ is_taken_and_not_first(pages[i]) =>
                /\ i > PAGE_START
                /\ is_taken(pages[i - 1])
                /\ pages[i - 1] \cap METADATA = {}
                /\ \E j \in 1..Len(allocated) :
                      {i - 1, i} \subseteq RunPages(allocated[j])

\* A run of three pages lies between two other runs, after a dealloc.
PageMetadataWitness ==
    /\ \E j \in 1..Len(allocated) :
          /\ allocated[j].count = 3
          /\ is_taken_and_first(pages[allocated[j].first - 1])
          /\ allocated[j].first + 3 < PagesLen(pages)
          /\ is_taken_and_first(pages[allocated[j].first + 3])
    /\ \E op \in {lastOp, prevOp} : op.op = "dealloc" /\ op.res = "Ok"

\* C8: a successful alloc(n) = p directly followed by dealloc(p): the dealloc
\* returns Ok, the metadata is what it was before the alloc, and alloc(n)
\* then returns p again.
AllocRoundTrip ==
    (/\ prevOp.op = "alloc" /\ prevOp.res = "Ok"
     /\ lastOp.op = "dealloc" /\ lastOp.arg = prevOp.ptr)
    => /\ lastOp.res = "Ok"
       /\ pages = prevOp.before
       /\ alloc(pages, prevOp.arg).res = "Ok"
       /\ alloc(pages, prevOp.arg).ptr = prevOp.ptr

\* A run of two pages was allocated into a hole between other runs and then
\* deallocated.
AllocRoundTripWitness ==
    /\ prevOp.op = "alloc" /\ prevOp.res = "Ok" /\ prevOp.arg = 2
    /\ lastOp.op = "dealloc" /\ lastOp.arg = prevOp.ptr /\ lastOp.res = "Ok"
    /\ Len(allocated) >= 2
    /\ \E j \in 1..Len(allocated) : PageAddr(allocated[j].first) > prevOp.ptr

\* n consecutive free pages start at index i of the metadata pgs.
FreeRunAt(pgs, i, n) ==
    /\ i + n <= PagesLen(pgs)
    /\ \A k \in i..(i + n - 1) : ~is_taken(pgs[k])

\* C9: alloc(n) succeeds iff n consecutive free pages exist after the
\* metadata prefix; it then returns the address of the lowest such run, marks
\* its first page first|taken and the n-1 others taken, and changes no other
\* page's metadata.
AllocFirstFit ==
    lastOp.op = "alloc" =>
        LET b == lastOp.before
            n == lastOp.arg
            fits == {i \in PageStartOf(PagesLen(b))..(PagesLen(b) - 1) :
                        FreeRunAt(b, i, n)}
        IN  /\ (lastOp.res = "Ok") <=> (fits # {})
            /\ lastOp.res = "Ok" =>
                  /\ lastOp.ptr = LD_HEAP_START + SetMin(fits) * PAGE_SIZE
                  /\ pages = [k \in DOMAIN b |->
                                IF k = SetMin(fits) THEN {"TAKEN", "FIRST"}
                                ELSE IF k \in (SetMin(fits) + 1)..(SetMin(fits) + n - 1)
                                     THEN {"TAKEN"}
                                     ELSE b[k]]
            /\ lastOp.res # "Ok" => lastOp.res = "AllocError"

\* alloc(2) skipped a free hole of one page and took the first hole that is
\* large enough.
AllocFirstFitWitness ==
    /\ lastOp.op = "alloc" /\ lastOp.res = "Ok" /\ lastOp.arg = 2
    /\ \E i \in PAGE_START..(PagesLen(pages) - 1) :
          /\ PageAddr(i) < lastOp.ptr
          /\ ~is_taken(lastOp.before[i])

\* An alloc failed although enough free pages exist, because they are not
\* consecutive.
AllocFragmentedWitness ==
    /\ lastOp.op = "alloc" /\ lastOp.res = "AllocError"
    /\ Cardinality({i \in DOMAIN pages : ~is_taken(pages[i])}) >= lastOp.arg

\* C10: a successful dealloc(p) marks free exactly the first page at p's page
\* and the taken-not-first pages that directly follow it, and leaves every
\* other page (other runs, metadata prefix) unchanged.
DeallocFrame ==
    (lastOp.op = "dealloc" /\ lastOp.res = "Ok") =>
        LET b == lastOp.before
            idx == (lastOp.arg - LD_HEAP_START) \div PAGE_SIZE
            run == {j \in idx..(PagesLen(b) - 1) :
                       \A k \in (idx + 1)..j : is_taken_and_not_first(b[k])}
        IN  /\ idx \in DOMAIN b
            /\ is_taken_and_first(b[idx])
            /\ \A j \in DOMAIN b : pages[j] = IF j \in run THEN EMPTY ELSE b[j]
            /\ \A j \in 1..Len(allocated) :
                  /\ RunPages(allocated[j]) \cap run = {}
                  /\ \A i \in RunPages(allocated[j]) : pages[i] = b[i]
            /\ \A i \in 0..(PageStartOf(PagesLen(b)) - 1) :
                  pages[i] = TAKEN \cup METADATA

\* A run of two pages directly followed by another run was deallocated
\* through a pointer into the middle of its first page.
DeallocFrameWitness ==
    /\ lastOp.op = "dealloc" /\ lastOp.res = "Ok"
    /\ lastOp.arg % PAGE_SIZE # 0
    /\ LET idx == (lastOp.arg - LD_HEAP_START) \div PAGE_SIZE
       IN  /\ idx + 2 < PagesLen(pages)
           /\ lastOp.before[idx + 1] = TAKEN
           /\ is_taken_and_first(lastOp.before[idx + 2])
           /\ is_taken_and_first(pages[idx + 2])
           /\ pages[idx] = EMPTY /\ pages[idx + 1] = EMPTY

\* The first address after the region: start + page count * PAGE_SIZE.
RegionEnd == LD_HEAP_START + PagesLen(pages) * PAGE_SIZE

\* The address lies in the region managed by the allocator.
InRegion(ptr) == ptr >= LD_HEAP_START /\ ptr < RegionEnd

\* The page of an address of the region.
PageOf(ptr) == (ptr - LD_HEAP_START) \div PAGE_SIZE

\* The last call was dealloc and left the metadata and the live runs alone.
DeallocChangedNothing ==
    /\ pages = lastOp.before
    /\ \A j \in 1..Len(allocated) :
          LET first == SetMin(RunPages(allocated[j]))
          IN  TAKEN \cup FIRST \subseteq pages[first]

\* C11: dealloc on an address outside the region (below its start, or at or
\* beyond its end) returns OutOfRangePointer and leaves the metadata unchanged.
DeallocOutOfRange ==
    (lastOp.op = "dealloc" /\ ~InRegion(lastOp.arg)) =>
        /\ lastOp.res = "OutOfRangePointer"
        /\ pages = lastOp.before

\* dealloc was called on an address of the page that follows the region.
DeallocPastEndWitness ==
    /\ lastOp.op = "dealloc"
    /\ lastOp.arg >= RegionEnd /\ lastOp.arg < RegionEnd + PAGE_SIZE

\* C12: dealloc on a page of the region that is not the first page of an
\* allocated run (taken but not first, free, or a metadata page) returns
\* InvalidPointer and changes nothing.
DeallocInvalidPointer ==
    (/\ lastOp.op = "dealloc"
     /\ InRegion(lastOp.arg)
     /\ ~(TAKEN \cup FIRST \subseteq lastOp.before[PageOf(lastOp.arg)])) =>
        /\ lastOp.res = "InvalidPointer"
        /\ DeallocChangedNothing

\* A run was deallocated and dealloc is called on it a second time.
DeallocTwiceWitness ==
    /\ prevOp.op = "dealloc" /\ prevOp.res = "Ok"
    /\ lastOp.op = "dealloc" /\ lastOp.arg = prevOp.arg
    /\ lastOp.res = "InvalidPointer"
    /\ Len(allocated) >= 1

\* dealloc was called on the second page of a live run.
DeallocMiddleWitness ==
    /\ lastOp.op = "dealloc" /\ InRegion(lastOp.arg)
    /\ lastOp.before[PageOf(lastOp.arg)] = TAKEN
    /\ lastOp.res = "InvalidPointer"

\* dealloc was called on a page of the metadata prefix.
DeallocMetadataWitness ==
    /\ lastOp.op = "dealloc" /\ InRegion(lastOp.arg)
    /\ lastOp.before[PageOf(lastOp.arg)] = TAKEN \cup METADATA
    /\ lastOp.res = "InvalidPointer"

\* C13: alloc(n) with n above the number of pages of the region returns
\* AllocError in every state, and every failing alloc leaves the metadata
\* unchanged.
AllocTooLargeFails ==
    lastOp.op = "alloc" =>
        /\ lastOp.arg > PagesLen(lastOp.before) => lastOp.res = "AllocError"
        /\ lastOp.res # "Ok" => pages = lastOp.before /\ lastOp.res = "AllocError"

\* alloc was called for more pages than the region has while two runs were
\* live, and alloc failed for a count that the region could hold when empty.
AllocTooLargeWitness ==
    /\ lastOp.op = "alloc" /\ lastOp.arg > PagesLen(pages)
    /\ lastOp.res = "AllocError"
    /\ prevOp.op = "alloc" /\ prevOp.res = "AllocError"
    /\ prevOp.arg < PagesLen(pages) - PAGE_START
    /\ Len(allocated) = 2

\* C14: the allocator never panics: every alloc and every dealloc returns a
\* Result, and no call indexes outside the metadata array.
AllocatorNeverPanics ==
    /\ lastOp.res \in {"none", "Ok", "AllocError", "OutOfRangePointer",
                       "InvalidPointer"}
    /\ hart.mode # "halted"

(* ------------------------------------------------------------------------ *)
(* Properties of the scheduler                                              *)
(* ------------------------------------------------------------------------ *)

\* The record of the process pid.
ProcessOf(pid) == Deref(proc_mem, by_pid(proc_mem, FIRST_PROCESS_PAGE, pid))

\* The pid of the process recorded as running.
RunningPid == PidOf(proc_mem, RUNNING_PROCESS)

\* The pids other than c that are Spawned or Waiting, given every state.
RunnableBut(states, c) ==
    {p \in DOMAIN states : p # c /\ states[p] \in {"Spawned", "Waiting"}}

\* Round robin after c: the smallest runnable pid above c, else the smallest
\* runnable pid other than c, else none.
RoundRobinChoice(states, c) ==
    LET R == RunnableBut(states, c)
        above == {p \in R : p > c}
    IN  IF above # {} THEN SetMin(above)
        ELSE IF R # {} THEN SetMin(R)
        ELSE NoPid

\* The first k dispatches are start_schedule() followed by switches of
\* wait(), all of them with exactly three processes in the table.
ThreeYielding(k) ==
    /\ k <= Len(trace)
    /\ \A j \in 1..k :
          /\ trace[j].n = 3
          /\ trace[j].op = IF j = 1 THEN "start" ELSE "wait"

\* C3: every scheduling decision of wait() or exit() made by pid c chooses
\* the Spawned-or-Waiting process with the smallest pid above c, else the one
\* with the smallest pid other than c; so three processes that each yield are
\* resumed in the order P0, P1, P2, P0.
RoundRobinPolicy ==
    /\ (lastSched.op \in {"wait", "exit"} /\ lastSched.by # NoPid) =>
          /\ lastSched.res # "panic"
          /\ lastSched.to = RoundRobinChoice(lastSched.before, lastSched.by)
          /\ lastSched.to # NoPid =>
                /\ lastSched.before[lastSched.to] \in {"Spawned", "Waiting"}
                /\ RunningPid = lastSched.to
    /\ \A k \in 1..Len(trace) : ThreeYielding(k) => trace[k].to = (k - 1) % 3

\* P0, P1 and P2 have each been dispatched and have yielded once, and P2's
\* wait() has just wrapped around to P0.
RoundRobinWitness ==
    /\ ThreeYielding(4)
    /\ lastSched.op = "wait" /\ lastSched.by = 2 /\ lastSched.to = 0
    /\ Len(trace) = 4 /\ trace[4].to = 0

\* A decision skipped a Dead process: pid 1 is Dead and exit() of pid 0
\* dispatched pid 2.
RoundRobinSkipWitness ==
    /\ lastSched.op = "exit" /\ lastSched.by = 0 /\ lastSched.to = 2
    /\ lastSched.before[1] = "Dead"

\* What holds right after wait() and while a call of wait() is pending.
WaitSwitched ==
    /\ (/\ lastSched.op = "wait" /\ lastSched.by # NoPid
        /\ RunnableBut(lastSched.before, lastSched.by) # {}) =>
          /\ lastSched.res = "switched"
          /\ lastSched.to \in RunnableBut(lastSched.before, lastSched.by)
          /\ ProcessOf(lastSched.by).state = "Waiting"
          /\ ProcessOf(lastSched.by).context.pc = WaitRet
          /\ lastSched.by \in inWait
          /\ RunningPid = lastSched.to
          /\ RUNNING_PROCESS = by_pid(proc_mem, FIRST_PROCESS_PAGE, lastSched.to)
          /\ hart = [mode |-> "run",
                     pc |-> ProcessOf(lastSched.to).context.pc,
                     sp |-> ProcessOf(lastSched.to).context.sp,
                     sx |-> ProcessOf(lastSched.to).context.sx]
    /\ \A p \in inWait :
          /\ RunningPid # p
          /\ ProcessOf(p).state = "Waiting"
          /\ ProcessOf(p).context.pc = WaitRet

\* C4: wait() of the running process P with another process Spawned or
\* Waiting marks P Waiting, saves P's context, records the chosen process as
\* running and gives it control; P's call returns only in a step in which a
\* scheduling decision dispatches P.
WaitTransfersControl ==
    /\ []WaitSwitched
    /\ [][\A p \in inWait :
             p \notin inWait' =>
                /\ lastSched'.to = p
                /\ lastSched'.res = "switched"
                /\ RunningPid' = p
                /\ hart'.pc = WaitRet]_vars

\* P0 yielded to P1, and P1's wait() has just given control back to P0, whose
\* own call of wait() thereby returned.
WaitTransfersWitness ==
    /\ lastSched.op = "wait" /\ lastSched.res = "switched"
    /\ lastSched.by = 1 /\ lastSched.to = 0
    /\ lastSched.before[0] = "Waiting"
    /\ inWait = {1}
    /\ hart.pc = WaitRet

\* What holds right after exit() and while a process runs.
ExitDone ==
    /\ lastSched.op = "exit" =>
          /\ lastSched.res \in {"switched", "halted"}
          /\ lastSched.by = NoPid => hart.mode = "halted"
          /\ lastSched.by # NoPid =>
                /\ ProcessOf(lastSched.by).state = "Dead"
                /\ pages[(ProcessOf(lastSched.by).stack_start - LD_HEAP_START)
                            \div PAGE_SIZE] = EMPTY
                /\ lastSched.to = RoundRobinChoice(lastSched.before, lastSched.by)
                /\ lastSched.to # NoPid =>
                      /\ lastSched.res = "switched"
                      /\ RunningPid = lastSched.to
                      /\ hart.mode = "run"
                      /\ hart.pc = ProcessOf(lastSched.to).context.pc
                /\ lastSched.to = NoPid =>
                      /\ lastSched.res = "halted"
                      /\ hart.mode = "halted"
    /\ hart.mode = "run" => ProcessOf(RunningPid).state # "Dead"

\* C5: exit() marks the current process Dead, frees its stack page and
\* dispatches the next runnable process in round-robin order, or halts the
\* hart when there is none or no process is running; the exited process never
\* runs again and a halted hart stays halted.
ExitNeverReturns ==
    /\ []ExitDone
    /\ [][hart.mode = "halted" => hart'.mode = "halted"]_vars
    /\ [][\A p \in DOMAIN lastSched.before :
             lastSched.before[p] = "Dead" =>
                /\ ProcessOf(p)'.state = "Dead"
                /\ RunningPid' # p]_vars

\* exit() of pid 2 wrapped around to pid 0 while pid 1 was already Dead.
ExitNeverReturnsWitness ==
    /\ lastSched.op = "exit" /\ lastSched.res = "switched"
    /\ lastSched.by = 2 /\ lastSched.to = 0
    /\ lastSched.before[1] = "Dead"
    /\ ProcessOf(2).state = "Dead"

\* The last runnable process exited and the hart is halted.
ExitHaltsWitness ==
    /\ lastSched.op = "exit" /\ lastSched.res = "halted" /\ lastSched.by # NoPid
    /\ hart.mode = "halted"
    /\ \A p \in 0..(PROCESS_COUNT - 1) : ProcessOf(p).state = "Dead"

\* C6: while a process executes, it is in state Running and it is the only
\* process in that state.
ExactlyOneRunning ==
    hart.mode = "run" =>
        /\ ProcessOf(RunningPid).state = "Running"
        /\ Cardinality({p \in 0..(PROCESS_COUNT - 1) :
                           ProcessOf(p).state = "Running"}) = 1

\* The record of the process pid after the step.
ProcessOfNext(pid) ==
    Deref(proc_mem', by_pid(proc_mem', FIRST_PROCESS_PAGE', pid))

\* C18: spawn(entry, name) creates a record in state Spawned whose saved
\* program counter is entry, whose saved stack pointer is the top
\* (start + PAGE_SIZE) of a freshly allocated one-page stack and whose
\* callee-saved registers are zero, and it changes no existing process record.
SpawnCreatesRecord ==
    [][\A call \in SpawnCalls :
         (Spawn(call) /\ lastSched'.res = "done") =>
            LET pid == lastSched'.to
                p == ProcessOfNext(pid)
                page == (p.stack_start - LD_HEAP_START) \div PAGE_SIZE
            IN  /\ p.state = "Spawned"
                /\ p.name = call.name
                /\ p.context.pc = call.entry
                /\ p.context.sp = p.stack_start + PAGE_SIZE
                /\ p.context.sx = 0
                /\ p.stack_start = LD_HEAP_START + page * PAGE_SIZE
                /\ page \in DOMAIN pages
                /\ pages[page] = EMPTY
                /\ pages'[page] = TAKEN \cup FIRST
                /\ (page + 1) \in DOMAIN pages => pages'[page + 1] # TAKEN
                /\ \A q \in 0..(PROCESS_COUNT - 1) : ProcessOfNext(q) = ProcessOf(q)
      ]_vars

\* A running process has spawned the third process while another process is
\* Waiting and a third one is Dead.
SpawnCreatesWitness ==
    /\ lastSched.op = "spawn" /\ lastSched.res = "done"
    /\ lastSched.by # NoPid /\ lastSched.to = 2
    /\ ProcessOf(2).state = "Spawned"
    /\ \E q \in 0..1 : ProcessOf(q).state = "Dead"

\* C19: pids are unique and monotonic: the k-th call of spawn (from 0) returns
\* pid k whatever has exited, the pid and the slot of a Dead process are never
\* reused, and a Dead record stays Dead forever.
PidsMonotonic ==
    /\ [](\A k \in 0..(PROCESS_COUNT - 1) :
            /\ ProcessOf(k).pid = k
            /\ ProcessOf(k).state # "Uninit")
    /\ [][/\ PROCESS_COUNT' \in {PROCESS_COUNT, PROCESS_COUNT + 1}
          /\ \A call \in SpawnCalls :
                (Spawn(call) /\ lastSched'.res = "done") =>
                   /\ lastSched'.to = PROCESS_COUNT
                   /\ PROCESS_COUNT' = PROCESS_COUNT + 1
                   /\ lastSched'.to = Cardinality({k \in 0..(MaxProcs - 1) :
                                          ProcessOf(k).state # "Uninit"})
          /\ \A k \in 0..(PROCESS_COUNT - 1) :
                ProcessOf(k).state = "Dead" =>
                   /\ ProcessOfNext(k).state = "Dead"
                   /\ ProcessOfNext(k).pid = k
         ]_vars

\* Process 1 has exited and the next call of spawn returned pid 2.
PidsMonotonicWitness ==
    /\ lastSched.op = "spawn" /\ lastSched.res = "done" /\ lastSched.to = 2
    /\ ProcessOf(1).state = "Dead"
    /\ ProcessOf(0).pid = 0 /\ ProcessOf(1).pid = 1 /\ ProcessOf(2).pid = 2

\* C20: start_schedule(), called once at boot with no process running,
\* records as running the first runnable process in table order (the lowest
\* pid that is Spawned or Waiting) and switches to it through the no-return
\* variant; it halts the hart if the table holds no runnable process.
StartSchedulePicksFirst ==
    lastSched.op = "start" =>
        LET runnable == {k \in DOMAIN lastSched.before :
                            lastSched.before[k] \in {"Spawned", "Waiting"}}
        IN  /\ lastSched.by = NoPid
            /\ IF runnable # {}
               THEN /\ lastSched.res = "switched"
                    /\ lastSched.to = SetMin(runnable)
                    /\ RunningPid = SetMin(runnable)
                    /\ hart.mode = "run"
                    /\ hart.pc = ProcessOf(SetMin(runnable)).context.pc
                    /\ hart.sp = ProcessOf(SetMin(runnable)).context.sp
               ELSE /\ lastSched.res = "halted"
                    /\ hart.mode = "halted"
                    /\ RUNNING_PROCESS = NoProcess

\* start_schedule() was called with two Spawned processes in the table and
\* gave control to pid 0.
StartScheduleWitness ==
    /\ lastSched.op = "start" /\ lastSched.res = "switched"
    /\ PROCESS_COUNT >= 2
    /\ lastSched.to = 0 /\ hart.mode = "run"

\* start_schedule() was called on an empty table and halted the hart.
StartScheduleHaltsWitness ==
    /\ lastSched.op = "start" /\ lastSched.res = "halted"
    /\ PROCESS_COUNT = 0 /\ hart.mode = "halted"

\* The states of all processes, by pid.
States == StatesOf(proc_mem, PROCESS_COUNT, FIRST_PROCESS_PAGE)

\* C21: wait() is a silent no-op when there is nothing to switch to: called
\* with no running process, or by the running process when no other process
\* is Spawned or Waiting, it returns without switching and leaves every
\* process record and the running-process pointer unchanged.
WaitNoOp ==
    [][(/\ Wait
        /\ \/ RUNNING_PROCESS = NoProcess
           \/ RunnableBut(States, RunningPid) = {}) =>
          /\ lastSched'.res = "returned"
          /\ proc_mem' = proc_mem
          /\ RUNNING_PROCESS' = RUNNING_PROCESS
          /\ hart' = hart
          /\ inWait' = inWait
          /\ pages' = pages
      ]_vars

\* The running process called wait() while every other process was Dead, and
\* the call returned.
WaitNoOpWitness ==
    /\ lastSched.op = "wait" /\ lastSched.res = "returned"
    /\ lastSched.by # NoPid /\ RunningPid = lastSched.by
    /\ PROCESS_COUNT >= 2
    /\ \A p \in 0..(PROCESS_COUNT - 1) :
          p # lastSched.by => ProcessOf(p).state = "Dead"
    /\ hart.mode = "run"

\* kmain called wait() before start_schedule(), with a process in the table.
WaitNoRunningWitness ==
    /\ lastSched.op = "wait" /\ lastSched.res = "returned"
    /\ lastSched.by = NoPid /\ RUNNING_PROCESS = NoProcess
    /\ PROCESS_COUNT >= 1 /\ hart.mode = "boot"

\* The page of the stack of the process pid.
StackPageOf(pid) == (ProcessOf(pid).stack_start - LD_HEAP_START) \div PAGE_SIZE

\* C22: exit reclaims the stack: after a process exits, its stack page is free
\* in the allocator metadata and a subsequent alloc(1) can obtain it, in
\* particular the stack allocation of a later spawn.
ExitReclaimsStack ==
    /\ (lastSched.op = "exit" /\ lastSched.by # NoPid) =>
          /\ lastOp.op = "dealloc" /\ lastOp.res = "Ok"
          /\ lastOp.before[StackPageOf(lastSched.by)] = TAKEN \cup FIRST
          /\ pages[StackPageOf(lastSched.by)] = EMPTY
          /\ alloc(pages, 1).res = "Ok"
          /\ alloc(pages, 1).ptr <= ProcessOf(lastSched.by).stack_start
          /\ AllocFrom(pages, StackPageOf(lastSched.by), 1).ptr =
                ProcessOf(lastSched.by).stack_start
    /\ \A q \in 0..(PROCESS_COUNT - 1) :
          ProcessOf(q).state = "Dead" =>
             \/ pages[StackPageOf(q)] = EMPTY
             \/ \E r \in (q + 1)..(PROCESS_COUNT - 1) :
                   ProcessOf(r).stack_start = ProcessOf(q).stack_start

\* A process exited and the spawn that followed got its stack page.
ExitReclaimsWitness ==
    /\ lastSched.op = "spawn" /\ lastSched.res = "done"
    /\ \E q \in 0..(PROCESS_COUNT - 2) :
          /\ ProcessOf(q).state = "Dead"
          /\ ProcessOf(q).stack_start = ProcessOf(lastSched.to).stack_start
    /\ pages[StackPageOf(lastSched.to)] = TAKEN \cup FIRST

\* A process has just exited and its stack page is free.
ExitFreedWitness ==
    /\ lastSched.op = "exit" /\ lastSched.res = "switched"
    /\ pages[StackPageOf(lastSched.by)] = EMPTY

\* The pids of the table.
Pids == 0..(PROCESS_COUNT - 1)

\* The pids that were given control, in the recorded dispatches.
Dispatched == {trace[i].to : i \in 1..Len(trace)}

\* The table holds only processes that call wait() once and then exit.
AllOnce == PROCESS_COUNT >= 1 /\ \A p \in Pids : ProcessOf(p).name = "A"

\* C23: scheduler liveness: with processes 0..k that each call wait() once
\* and then exit, start_schedule() and the switches that follow dispatch every
\* process at least once, and the hart eventually halts with every process
\* Dead.
SchedulerLiveness ==
    (AllOnce /\ hart.mode = "run") ~>
        /\ hart.mode = "halted"
        /\ lastSched.op = "exit" /\ lastSched.res = "halted"
        /\ \A p \in Pids : ProcessOf(p).state = "Dead" /\ p \in Dispatched

\* Three processes that each waited once have all exited, and the hart
\* halted.
SchedulerLivenessWitness ==
    /\ AllOnce /\ PROCESS_COUNT >= 3
    /\ hart.mode = "halted" /\ lastSched.op = "exit"
    /\ \A p \in Pids : ProcessOf(p).state = "Dead" /\ p \in Dispatched

\* Every process of the table calls wait() or exit() whenever it runs.
Cooperative == \A p \in Pids : ProcessOf(p).name # "B"

\* C24: wait() is guaranteed to return: when every dispatched process
\* eventually calls wait() or exit(), every call of wait() that switched away
\* eventually returns, that is, every Waiting process is dispatched again.
WaitReturns ==
    \A p \in 0..MaxProcs :
        (Cooperative /\ hart.mode = "run" /\ p \in inWait) ~> (p \notin inWait)

\* A process whose wait() switched away has been resumed after two other
\* processes ran.
WaitReturnsWitness ==
    /\ Cooperative /\ PROCESS_COUNT >= 3
    /\ lastSched.op = "wait" /\ lastSched.res = "switched"
    /\ lastSched.to = 0 /\ lastSched.by = 2
    /\ hart.pc = WaitRet /\ 0 \notin inWait

\* A (waits once, returns) was spawned first and the process named b second,
\* and the schedule was started.
Scenario(b) ==
    /\ PROCESS_COUNT = 2 /\ hart.mode # "boot"
    /\ ProcessOf(0).name = "A" /\ ProcessOf(1).name = b

\* A has exited and its stack page is free.
AExited ==
    /\ PROCESS_COUNT >= 1
    /\ ProcessOf(0).state = "Dead"
    /\ pages[StackPageOf(0)] = EMPTY

\* The original statement of C25, with a B that loops forever: A runs,
\* yields, B runs, A resumes and exits with its stack freed.
EndToEndSpinning == Scenario("B") ~> AExited

\* C25: end-to-end scenario, with a B that loops forever around a call of
\* wait(): after start_schedule() A runs, yields, B runs, A resumes and exits
\* with its stack freed; from then on only B runs and the hart is never
\* halted.
EndToEnd ==
    /\ Scenario("B_yield") ~>
          /\ AExited
          /\ [i \in 1..Len(trace) |-> <<trace[i].op, trace[i].to>>] =
                <<<<"start", 0>>, <<"wait", 1>>, <<"wait", 0>>, <<"exit", 1>>>>
    /\ [](Scenario("B_yield") /\ AExited =>
            /\ hart.mode = "run" /\ RunningPid = 1
            /\ Len(trace) = 4
            /\ ProcessOf(1).state # "Dead")
    /\ [][Scenario("B_yield") /\ AExited =>
            /\ AExited'
            /\ RUNNING_PROCESS' = RUNNING_PROCESS
            /\ hart' = hart /\ trace' = trace]_vars

\* A has exited, and B called wait() afterwards and got control back.
EndToEndWitness ==
    /\ Scenario("B_yield") /\ AExited
    /\ lastSched.op = "wait" /\ lastSched.by = 1 /\ lastSched.res = "returned"
    /\ hart.mode = "run" /\ RunningPid = 1

\* The pages of the process table in chain order, the first at index 0.
RECURSIVE ChainFrom(_, _)
ChainFrom(page, n) ==
    IF n = 0 THEN <<>> ELSE <<page>> \o ChainFrom(proc_mem[page].next, n - 1)

\* The number of table pages that hold k processes.
PagesFor(k) ==
    IF k = 0 THEN 1
    ELSE (k + PROCESS_COUNT_PER_PAGE - 1) \div PROCESS_COUNT_PER_PAGE

\* C26: process storage: after k spawns the table is a chain of
\* max(1, ceil(k / PROCESS_COUNT_PER_PAGE)) pages, a page is linked exactly
\* when a spawn finds the count a positive multiple of PROCESS_COUNT_PER_PAGE,
\* pid i is at slot i mod PROCESS_COUNT_PER_PAGE of page i div
\* PROCESS_COUNT_PER_PAGE for spawn and by_pid alike, and the iteration yields
\* the pids 0..k-1 in ascending order, each once.
ProcessStorage ==
    /\ []((PROCESS_PAGE_COUNT >= 1 /\ lastSched.res # "panic") =>
          LET k == PROCESS_COUNT
              chain == ChainFrom(FIRST_PROCESS_PAGE, PROCESS_PAGE_COUNT)
              slotOf(i) ==
                  [page |-> chain[(i \div PROCESS_COUNT_PER_PAGE) + 1],
                   idx |-> i % PROCESS_COUNT_PER_PAGE]
              procs == iter(proc_mem, PROCESS_COUNT, FIRST_PROCESS_PAGE)
          IN  /\ PROCESS_PAGE_COUNT = PagesFor(k)
              /\ chain[PROCESS_PAGE_COUNT] = LAST_PROCESS_PAGE
              /\ \A a, b \in 1..PROCESS_PAGE_COUNT :
                    /\ pages[PageIndexOf(chain[a])] = TAKEN \cup FIRST
                    /\ a # b => chain[a] # chain[b]
              /\ \A i \in 0..(k - 1) :
                    /\ by_pid(proc_mem, FIRST_PROCESS_PAGE, i) = slotOf(i)
                    /\ Deref(proc_mem, slotOf(i)).pid = i
                    /\ Deref(proc_mem, slotOf(i)).state = "Spawned"
              /\ Len(procs) = k
              /\ \A i \in 1..k : procs[i] = slotOf(i - 1))
    /\ [][\A call \in SpawnCalls :
            (spawn(call) /\ lastSched'.res = "done") =>
               LET grow == /\ PROCESS_COUNT > 0
                           /\ PROCESS_COUNT % PROCESS_COUNT_PER_PAGE = 0
               IN  /\ PROCESS_PAGE_COUNT' =
                         IF grow THEN PROCESS_PAGE_COUNT + 1 ELSE PROCESS_PAGE_COUNT
                   /\ (LAST_PROCESS_PAGE' # LAST_PROCESS_PAGE) <=> grow
                   /\ grow => /\ proc_mem'[LAST_PROCESS_PAGE].next = LAST_PROCESS_PAGE'
                              /\ pages[PageIndexOf(LAST_PROCESS_PAGE')] = EMPTY
                   /\ by_pid(proc_mem', FIRST_PROCESS_PAGE', PROCESS_COUNT) =
                         [page |-> LAST_PROCESS_PAGE',
                          idx |-> PROCESS_COUNT % PROCESS_COUNT_PER_PAGE]
          ]_vars

\* The spawn of pid PROCESS_COUNT_PER_PAGE linked a second page and wrote its
\* first slot.
ProcessStorageWitness ==
    /\ PROCESS_COUNT = PROCESS_COUNT_PER_PAGE + 1
    /\ PROCESS_PAGE_COUNT = 2
    /\ LAST_PROCESS_PAGE # FIRST_PROCESS_PAGE
    /\ proc_mem[FIRST_PROCESS_PAGE].next = LAST_PROCESS_PAGE
    /\ proc_mem[LAST_PROCESS_PAGE].slots[0].pid = PROCESS_COUNT_PER_PAGE
    /\ lastSched.op = "spawn" /\ lastSched.to = PROCESS_COUNT_PER_PAGE

\* C27: spawn never fails observably: every call returns a pid, whatever the
\* state of the allocator, also when no page is free for the stack or for a
\* new table page.
SpawnNeverFails ==
    lastSched.op = "spawn" =>
        /\ lastSched.res = "done"
        /\ lastSched.to # NoPid
        /\ hart.mode # "halted"

\* The harts that are inside a call of alloc.
InAlloc == {h \in DOMAIN dev_op : dev_op[h].pc = "alloc_mark"}

\* C28: at most one caller at a time mutates the metadata of the page
\* allocator: no two calls of alloc are in progress at once, also when block
\* operations are issued concurrently on two different devices, each under
\* the lock of its device.
OneAllocAtATime == Cardinality(InAlloc) <= 1

\* A write that enables an interrupt: of a flag in mie, or of an interrupt
\* source in the PLIC.
EnablesInterrupt(w) == w.reg \in {"mie", "plic.enable"}

\* C29: the trap frame is installed before interrupts are enabled: on hart 0
\* the write of the trap frame address to mscratch precedes every write that
\* enables an interrupt, the one of mie in init_hart_zero and the one of the
\* interrupt source in kmain.
TrapFrameFirst ==
    \A i \in 1..Len(boot.writes) :
        EnablesInterrupt(boot.writes[i]) =>
            \E j \in 1..(i - 1) : boot.writes[j].reg = "mscratch"

\* The fault codes that have a cause name.
RecognizedCodes == 0..7 \cup {12, 13, 15}

\* The number a text of hexadecimal digits stands for.
RECURSIVE HexValue(_)
HexValue(digits) ==
    IF digits = <<>> THEN 0
    ELSE LET last == digits[Len(digits)]
             d == CHOOSE k \in 0..15 : DigitChars[k + 1] = last
         IN  16 * HexValue(SubSeq(digits, 1, Len(digits) - 1)) + d

\* What the last line of the console says about the fault code.
ReportsCode(code) ==
    LET line == console[Len(console)]
    IN  IF code \in RecognizedCodes
        THEN /\ Len(line) = 2 /\ line[1] = " = Code: "
             /\ line[2] \notin {NoName, ""}
             /\ \A other \in FaultCodes \ {code} : line[2] # get_code(other)
        ELSE /\ Len(line) >= 3 /\ line[1] = " = Unknown code: "
             /\ HexValue(Tail(line)) = code

\* C30: kpanic never returns, for any fault code: it reports the name of the
\* cause for the codes 0-7, 12, 13 and 15 and the raw number for every other
\* code, then halts the hart for good; no process is dispatched and no state
\* is resumed afterwards.
KpanicHalts ==
    /\ [][\A code \in FaultCodes :
            Kpanic(code) =>
               /\ hart'.mode = "halted"
               /\ Len(console') = Len(console) + 2
               /\ ReportsCode(code)'
               /\ RUNNING_PROCESS' = RUNNING_PROCESS /\ proc_mem' = proc_mem
          ]_vars
    /\ [][hart.mode = "halted" =>
            UNCHANGED <<hart, procVars, allocVars, boot, console>>]_vars

\* kpanic was entered with the unknown code 8 while a process was running,
\* and the hart is halted.
KpanicHaltsWitness ==
    /\ hart.mode = "halted" /\ RUNNING_PROCESS # NoProcess
    /\ Len(console) >= 2
    /\ console[Len(console)] = <<" = Unknown code: ", "0", "8">>

\* kpanic was entered with the code 15 during kmain.
KpanicNamedWitness ==
    /\ hart.mode = "halted" /\ boot.pc = "trap"
    /\ Len(console) >= 2
    /\ console[Len(console)] = <<" = Code: ", "Store/AMO page fault">>

\* The position of the first console line equal to line, 0 when it was not
\* printed.
LineIndex(line) ==
    IF \E i \in 1..Len(console) : console[i] = line
    THEN SetMin({i \in 1..Len(console) : console[i] = line})
    ELSE 0

\* The line b was printed only after the line a.
PrintedBefore(a, b) ==
    LineIndex(b) > 0 => (LineIndex(a) > 0 /\ LineIndex(a) < LineIndex(b))

\* The register reg was written.
Wrote(reg) == \E i \in 1..Len(boot.writes) : boot.writes[i].reg = reg

\* What kmain has brought up, read from the machine and the statics.
ConsoleReady == boot.uart.lcr = 3 /\ boot.uart.fcr = 1
CsrReported == LineIndex(<<"== On hart #">> \o Decimal(0)) > 0
PageReady == PagesLen(pages) > 0
ThresholdSet == Wrote("plic.threshold")
DriversRegistered == boot.drivers # <<>>
DriversLoaded == DriversRegistered /\ boot.loaded = boot.drivers
TrapReady == boot.mscratch = "HART_ZERO_FRAME"
ProcessManagerReady == PROCESS_PAGE_COUNT >= 1
InitialSpawned == PROCESS_COUNT >= 1
SchedulerEntered == lastSched.op = "start"

\* C31: kmain brings up the console, the CSR diagnostics, the page allocator,
\* the PLIC threshold, the drivers, the trap state and the process manager in
\* this order, then spawns the initial process and enters the scheduler; no
\* page is allocated before page::init, no process is spawned before
\* process::init, and control never comes back to kmain after start_schedule.
StartupOrder ==
    /\ CsrReported => ConsoleReady
    /\ PageReady => CsrReported
    /\ ThresholdSet => PageReady
    /\ DriversRegistered => ThresholdSet
    /\ TrapReady => DriversLoaded
    /\ ProcessManagerReady => TrapReady
    /\ InitialSpawned => ProcessManagerReady
    /\ SchedulerEntered => InitialSpawned
    /\ PrintedBefore(<<"== UART initialized">>, <<"== On hart #">> \o Decimal(0))
    /\ PrintedBefore(<<"== On hart #">> \o Decimal(0),
                     <<"== Page allocator initialized">>)
    /\ PrintedBefore(<<"== Page allocator initialized">>, <<"== PLIC Initialized">>)
    /\ PrintedBefore(<<"== PLIC Initialized">>, <<"== Loading VirtIO">>)
    /\ PrintedBefore(<<"== Loading VirtIO">>, <<"== Interrupt trap initialized">>)
    /\ PrintedBefore(<<"== Interrupt trap initialized">>,
                     <<"== Process manager initialized">>)
    /\ PrintedBefore(<<"== Process manager initialized">>,
                     <<"== Start scheduling processes">>)
    /\ (allocated # <<>> \/ lastOp # NoOp) => PageReady
    /\ (PROCESS_COUNT >= 1 \/ proc_mem # <<>>) => ProcessManagerReady
    /\ boot.pc = "scheduled" => hart.mode # "boot"

\* kmain went through every step: a block device was loaded on queue pages
\* of the allocator and the initial process runs.
StartupOrderWitness ==
    /\ SchedulerEntered /\ hart.mode = "run" /\ RunningName = "[init]"
    /\ DOMAIN devices # {} /\ allocated # <<>>
    /\ LineIndex(<<"== Start scheduling processes">>) > 0

\* The sequence s begins with the sequence p.
IsPrefix(p, s) == Len(p) <= Len(s) /\ \A i \in 1..Len(p) : p[i] = s[i]

\* The number of console lines equal to line.
LineCount(line) == Cardinality({i \in 1..Len(console) : console[i] = line})

\* kmain is past its loop over the drivers.
PastDriverLoop == boot.pc \in {"trap", "process", "spawn", "schedule", "scheduled"}

\* The loads so far went through the registered drivers once, in registration
\* order, and VirtioDriver::load announced itself once when it ran.
LoadedOnceInOrder ==
    /\ IsPrefix(boot.loaded, boot.drivers)
    /\ \A i, j \in 1..Len(boot.loaded) : boot.loaded[i] = boot.loaded[j] => i = j
    /\ PastDriverLoop => (DriversRegistered /\ boot.loaded = boot.drivers)
    /\ LineCount(<<"== Loading VirtIO">>) =
          Cardinality({i \in 1..Len(boot.loaded) : boot.loaded[i] = "VIRTIO"})

\* The original statement of C32: a driver is loaded only when the page
\* allocator and the process manager are both ready.
DriversLoadAfterCore ==
    /\ LoadedOnceInOrder
    /\ boot.loaded # <<>> => (PageReady /\ ProcessManagerReady)

\* C32: each registered driver's load() is invoked exactly once at startup, in
\* registration order, only after the page allocator is ready and before the
\* process manager is initialized.
DriversLoadOnce ==
    /\ LoadedOnceInOrder
    /\ boot.loaded # <<>> => PageReady
    /\ ProcessManagerReady => boot.loaded = boot.drivers
    /\ boot.pc = "load" => ~ProcessManagerReady

\* Both drivers were loaded, the VirtIO driver found a block device and took
\* its queue pages from the allocator, and the process manager was
\* initialized afterwards.
DriversLoadOnceWitness ==
    /\ boot.loaded = <<"BLOCK", "VIRTIO">>
    /\ DOMAIN devices # {} /\ allocated # <<>>
    /\ ProcessManagerReady

\* ceil(P / PAGE_SIZE) for a region of P >= 1 pages: the least number of
\* pages that hold P metadata bytes.
MetadataPagesFor(P) ==
    SetMin({k \in 1..P : k * PAGE_SIZE >= P})

\* C33: after init the first ceil(P / PAGE_SIZE) pages of a region of P
\* pages carry TAKEN|METADATA and every other page is EMPTY; afterwards no
\* alloc or dealloc changes the flags of a metadata page, and no alloc
\* returns one.
MetadataReserved ==
    LET P == PagesLen(pages)
        reserved == 0..(MetadataPagesFor(P) - 1)
    IN  /\ \A i \in reserved : pages[i] = TAKEN \cup METADATA
        /\ lastOp = NoOp =>
              \A i \in DOMAIN pages \ reserved : pages[i] = EMPTY
        /\ (lastOp.op = "alloc" /\ lastOp.res = "Ok") =>
              PageIndexOf(lastOp.ptr) \notin reserved
        /\ \A k \in 1..Len(allocated) :
              RunPages(allocated[k]) \cap reserved = {}

\* In a region with two metadata pages, dealloc was refused on the second
\* metadata page after an alloc that took the first page behind it.
MetadataReservedWitness ==
    /\ PagesLen(pages) = MetaPages /\ MetadataPagesFor(MetaPages) >= 2
    /\ lastOp.op = "dealloc" /\ lastOp.arg = PageAddr(1)
    /\ lastOp.res = "InvalidPointer"
    /\ prevOp.op = "alloc" /\ prevOp.res = "Ok"
    /\ prevOp.ptr = PageAddr(MetadataPagesFor(MetaPages))

\* Offsets into a page: its first byte, the next one, the middle and the
\* last byte.
AlignOffsets == {0, 1, PAGE_SIZE \div 2, PAGE_SIZE - 1}

\* The address ptr rounded down to the start of its page.
AlignedDown(ptr) == ptr - ((ptr - LD_HEAP_START) % PAGE_SIZE)

\* C34: dealloc aligns its argument down to a page: for a run whose first
\* page starts at p, dealloc(p + d) with 0 <= d < PAGE_SIZE gives the Result
\* and the metadata that dealloc(p) gives, and a dealloc call made with such
\* an address left the state that the call with p leaves.
DeallocAlignsDown ==
    /\ \A k \in 1..Len(allocated), d \in AlignOffsets :
          LET p == PageAddr(allocated[k].first)
          IN  dealloc(pages, p + d) = dealloc(pages, p)
    /\ (/\ lastOp.op = "dealloc"
        /\ AlignedDown(lastOp.arg) >= LD_HEAP_START
        /\ PageOf(lastOp.arg) \in DOMAIN lastOp.before
        /\ is_taken_and_first(lastOp.before[PageOf(lastOp.arg)]))
       => LET r == dealloc(lastOp.before, AlignedDown(lastOp.arg))
          IN  /\ lastOp.res = r.res /\ r.res = "Ok"
              /\ pages = r.pages

\* dealloc was called with the last byte of the first page of a run of two
\* pages, and freed both.
DeallocAlignsDownWitness ==
    /\ lastOp.op = "dealloc" /\ lastOp.res = "Ok"
    /\ lastOp.arg = AlignedDown(lastOp.arg) + PAGE_SIZE - 1
    /\ is_taken_and_first(lastOp.before[PageOf(lastOp.arg)])
    /\ is_taken_and_not_first(lastOp.before[PageOf(lastOp.arg) + 1])
    /\ pages[PageOf(lastOp.arg)] = EMPTY /\ pages[PageOf(lastOp.arg) + 1] = EMPTY

\* The processes that are not Dead, and the pages of the process table.
LivePids == {p \in Pids : ProcessOf(p).state # "Dead"}
TablePages == {PageOf(a) : a \in DOMAIN proc_mem}

\* The pages of the runs that are allocated.
AllocatedPages == UNION {RunPages(allocated[k]) : k \in 1..Len(allocated)}

\* The pages that carry the flag TAKEN and are no metadata pages.
TakenPages == {i \in DOMAIN pages : is_taken(pages[i]) /\ pages[i] \cap METADATA = {}}

\* C35: between the calls of the process manager every process that is not
\* Dead owns one allocated page [stack_start, stack_end) of PAGE_SIZE bytes;
\* the stack pages of distinct live processes differ from each other and from
\* the process-table pages; a Dead process owns no allocated page: the
\* allocated pages are the table pages and the stacks of the live processes,
\* and their number is table pages plus live processes.
StackOwnership ==
    /\ \A p \in LivePids :
          /\ ProcessOf(p).stack_end - ProcessOf(p).stack_start = PAGE_SIZE
          /\ ProcessOf(p).stack_start = PageAddr(StackPageOf(p))
          /\ \E k \in 1..Len(allocated) :
                allocated[k] = [first |-> StackPageOf(p), count |-> 1]
          /\ StackPageOf(p) \notin TablePages
    /\ \A p, q \in LivePids : p # q => StackPageOf(p) # StackPageOf(q)
    /\ AllocatedPages = TablePages \cup {StackPageOf(p) : p \in LivePids}
    /\ TakenPages = AllocatedPages
    /\ Cardinality(TakenPages) = PROCESS_PAGE_COUNT + Cardinality(LivePids)
    /\ Cardinality(TablePages) = PROCESS_PAGE_COUNT

\* A process exited and a process spawned afterwards got the stack page the
\* dead one had; another process is still alive on its own page.
StackOwnershipWitness ==
    /\ \E p \in Pids \ LivePids, q \in LivePids :
          p < q /\ StackPageOf(p) = StackPageOf(q)
    /\ Cardinality(LivePids) >= 2
    /\ hart.mode = "run"

\* The dispatches so far, as pairs of the call and the pid it loaded.
Dispatches == [i \in 1..Len(trace) |-> <<trace[i].op, trace[i].to>>]

\* The shell has run and exited and init has the hart again.
ShellDone ==
    /\ PROCESS_COUNT = 2
    /\ ProcessOf(1).name = "[shell]" /\ ProcessOf(1).state = "Dead"
    /\ pages[StackPageOf(1)] = EMPTY
    /\ StackPageOf(1) \notin AllocatedPages
    /\ ProcessOf(0).name = "[init]" /\ ProcessOf(0).state # "Dead"
    /\ hart.mode = "run" /\ RunningPid = 0
    /\ Dispatches = <<<<"start", 0>>, <<"wait", 1>>, <<"exit", 0>>>>

\* C36: boot with the built-in processes: init (pid 0) is dispatched first,
\* the shell (pid 1) is dispatched once, becomes Dead and has its stack page
\* freed, control returns to init, and from then on every wait() of init
\* returns without a switch; the scheduler never halts the hart.
BuiltinBoot ==
    /\ (boot.pc = "scheduled") ~>
          [](ShellDone /\ lastSched.op = "wait" /\ lastSched.res = "returned"
                       /\ lastSched.by = 0)
    /\ [](boot.pc = "scheduled" => Len(Dispatches) >= 1)
    /\ [](IsPrefix(Dispatches,
                   <<<<"start", 0>>, <<"wait", 1>>, <<"exit", 0>>>>))
    /\ [](hart.mode # "halted" /\ lastSched.res \notin {"halted", "panic"})
    /\ [][(ShellDone /\ InitWait) =>
            /\ lastSched'.op = "wait" /\ lastSched'.res = "returned"
            /\ UNCHANGED <<RUNNING_PROCESS, proc_mem, hart, trace, allocVars>>
         ]_vars
    /\ [][ShellDone => ShellDone']_vars

\* The shell is Dead, and a wait() of init made afterwards returned without
\* a switch.
BuiltinBootWitness ==
    /\ ShellDone
    /\ lastSched.op = "wait" /\ lastSched.res = "returned" /\ lastSched.by = 0
    /\ DOMAIN devices # {}

\* The hart h is inside the loop of spin_lock().
Spinning(h) == hart_pc[h] \in {"spin_swap", "spin_match"}

\* C37: spin_lock() terminates under release: a hart that spins in
\* spin_lock() while the holder eventually drops its guard gets the guard in
\* the end, its retried try_lock() succeeding after the release.
SpinLockTerminates ==
    \A h \in Harts : Spinning(h) ~> (hart_pc[h] = "held")

\* A hart saw the lock Acquired inside spin_lock() while another hart owned
\* the guard.
SpinningWitness ==
    \E h, g \in Harts :
        /\ h # g /\ hart_pc[h] = "spin_match" /\ hart_swap[h] = STATE_ACQUIRED
        /\ hart_pc[g] \in {"held", "access"}

\* A hart owns the guard after another hart held it, wrote the payload and
\* dropped it.
SpinLockTerminatesWitness ==
    \E h, g \in Harts :
        /\ h # g /\ hart_pc[h] = "held" /\ mutex_state = STATE_ACQUIRED
        /\ hart_pc[g] = "idle" /\ unlocks[g] = 1
        /\ mutex_data # 0

\* C38: append(d0).next(d1).next(d2) writes the three descriptors at three
\* consecutive indices modulo the queue size, sets NEXT on d0 and d1 with
\* d0.next the index of d1 and d1.next the index of d2, leaves d2 without
\* NEXT, and head_index() is the index of d0.
ChainedDescriptors ==
    [][\A h \in Harts :
          BlockSubmit(h) =>
             LET i0 == (queue.index + 1) % VIRTIO_QUEUE_SIZE
                 i1 == (i0 + 1) % VIRTIO_QUEUE_SIZE
                 i2 == (i1 + 1) % VIRTIO_QUEUE_SIZE
                 d == queue'.descriptor
             IN  /\ d[i0].addr = blk[h].req
                 /\ d[i0].len = SizeOfBlockRequestHeader
                 /\ d[i2].addr = blk[h].req + OffsetOfStatus /\ d[i2].len = 1
                 /\ d[i1].len = VIRTIO_BLOCK_SECTOR_SIZE
                 /\ queue'.index = i2
                 /\ "NEXT" \in d[i0].flags /\ d[i0].next = i1
                 /\ "NEXT" \in d[i1].flags /\ d[i1].next = i2
                 /\ "NEXT" \notin d[i2].flags
                 /\ queue'.available.ring[queue.available.index] = i0
      ]_vars

\* The calls load_block_device made on the device of the slot idx, in order,
\* and the values of its status writes.
CallsOn(idx) == LET On(c) == c.idx = idx IN SelectSeq(boot.mmio, On)
StatusWrites(idx) ==
    LET IsStatus(c) == c.op = "set_status"
        w == SelectSeq(CallsOn(idx), IsStatus)
    IN  [i \in 1..Len(w) |-> w[i].val]
Called(idx, op) == \E i \in 1..Len(CallsOn(idx)) : CallsOn(idx)[i].op = op

\* The slot idx holds a block device with the version 1 interface that keeps
\* FEATURES_OK and has a queue 0 of at least VIRTIO_QUEUE_SIZE entries.
AcceptableDevice(idx) ==
    /\ boot.slots[idx] \notin {"invalid_magic", "not_connected", "network"}
    /\ DeviceVersion(boot.slots[idx]) = 1
    /\ "FEATURES_OK" \in DeviceStatusRead(boot.slots[idx])
    /\ DeviceQueueNumMax(boot.slots[idx]) >= VIRTIO_QUEUE_SIZE

\* The queue pages announced to the device of the slot idx are an allocated
\* run of the page allocator.
QueueAllocated(idx) ==
    \E i \in 1..Len(CallsOn(idx)) :
        /\ CallsOn(idx)[i].op = "set_queue_pfn"
        /\ \E k \in 1..Len(allocated) :
              /\ PageAddr(allocated[k].first) = CallsOn(idx)[i].val * PAGE_SIZE
              /\ allocated[k].count = QUEUE_PAGES_COUNT

\* C39: load_block_device writes the status reset, ACKNOWLEDGE,
\* ACKNOWLEDGE|DRIVER and then adds FEATURES_OK; it writes DRIVER_OK and
\* registers the block device only after that, for a device that still
\* reports FEATURES_OK and whose queue 0 holds 128 entries, with the queue
\* pages allocated; for a version other than 1 and on each of these failures
\* DRIVER_OK is never written and no block device is registered.
BringUpOrder ==
    /\ \A idx \in DOMAIN boot.slots :
          LET w == StatusWrites(idx)
              ok == \E i \in 1..Len(w) : "DRIVER_OK" \in w[i]
          IN  /\ IsPrefix(w, <<StatusReset, StatusAcknowledge, StatusDriver,
                               StatusFeaturesOk, StatusDriverOk>>)
              /\ Len(w) \in {0, 4, 5}
              /\ ok => /\ AcceptableDevice(idx) /\ QueueAllocated(idx)
                       /\ Called(idx, "register")
                       /\ CallsOn(idx)[Len(CallsOn(idx))].op = "register"
                       /\ CallsOn(idx)[Len(CallsOn(idx)) - 1].op = "set_status"
              /\ Called(idx, "register") => ok
              /\ DeviceVersion(boot.slots[idx]) # 1 => CallsOn(idx) = <<>>
              /\ (idx \in boot.connected /\ AcceptableDevice(idx) /\ ~ok) =>
                    /\ Len(w) = 4
                    /\ ~\E i \in DOMAIN pages : FreeRunAt(pages, i, QUEUE_PAGES_COUNT)
    /\ Cardinality(DOMAIN devices) =
          Cardinality({idx \in DOMAIN boot.slots : Called(idx, "register")})

\* Of two good block devices the first was brought up and registered, and
\* the second stopped after FEATURES_OK because the queue pages could not be
\* allocated.
BringUpOrderWitness ==
    /\ boot.connected = {0, 1}
    /\ AcceptableDevice(0) /\ AcceptableDevice(1)
    /\ StatusWrites(0)[Len(StatusWrites(0))] = StatusDriverOk
    /\ Called(0, "register") /\ QueueAllocated(0)
    /\ Len(StatusWrites(1)) = 4 /\ ~Called(1, "register")
    /\ DOMAIN devices = {0}

\* A device that dropped FEATURES_OK and a device with a short queue were
\* probed: neither got DRIVER_OK.
BringUpRefusedWitness ==
    /\ boot.connected = {0, 1}
    /\ boot.slots[0] = "block_nofeat" /\ boot.slots[1] = "block_shortq"
    /\ Len(StatusWrites(0)) = 4 /\ Len(StatusWrites(1)) = 4
    /\ DOMAIN devices = {}

\* The pages of the managed region that an allocation holds.
HeldPages(pgs) == {i \in DOMAIN pgs : is_taken(pgs[i]) /\ pgs[i] \cap METADATA = {}}

\* C40: each do_block_operation call whose allocation succeeds takes exactly
\* one page of the page allocator for its request structure, and a call
\* whose allocation fails takes none, so k calls hold at most k pages.
OnePagePerRequest ==
    [][\A h \in Harts :
          BlockAlloc(h) =>
             /\ lastOp'.op = "alloc"
             /\ IF lastOp'.res = "Ok"
                THEN /\ Cardinality(HeldPages(pages')) =
                            Cardinality(HeldPages(pages)) + 1
                     /\ Len(allocated') = Len(allocated) + 1
                     /\ allocated'[Len(allocated')].count = 1
                ELSE HeldPages(pages') = HeldPages(pages)]_vars

====
